---- MODULE Spec2Model ----
(***************************************************************************)
(* ForgeScan experiment sweep scripts, scripts/sweep_run_experiment.py and *)
(* scripts/experiments/experiment_3.py, and the plotting scripts           *)
(* scripts/figures/plot_experiment_result_confusion.py and                 *)
(* scripts/plot_confusion.py.                                              *)
(*                                                                         *)
(* Text is a sequence of atoms.  An atom is a literal word of the source   *)
(* ("--n-views"), a single digit, ".", "-", "/", a blank " " or a newline  *)
(* "\n".  Numbers are rendered digit by digit, so that formatting and      *)
(* parsing are real conversions.  A Python float is a decimal              *)
(* [m |-> mantissa, e |-> number of fractional digits], value m / 10^e.    *)
(* A file name is a sequence of atoms (<<"bunny", ".h5">>), a path is a    *)
(* sequence of file names.  A float64 of the metric arrays is an exact     *)
(* ratio, nan or inf; a standard deviation is held as its square.          *)
(***************************************************************************)
EXTENDS Integers, Sequences, FiniteSets, TLC

(* ------------------------------ bounds -------------------------------- *)

\* Largest number of configurations of a sweep (the tables are truncated to it).
MaxConfigs == 4

\* Largest repetition count given to a stochastic policy (RANDOM_RERUNS).
MaxReruns == 2

\* random.randrange(1, 1e8) is drawn from 1 .. SeedBound - 1.
SeedBound == 3

\* The largest view count of a plotted results tree.
MaxViews == 2

\* The largest number of repetition directories of a view-count directory.
MaxReps == 2

\* The largest number of policy directories of a plotted results tree.
MaxPolicies == 2

\* The most entries of the bin directory.
MaxEntries == 3

\* The most entries of the directory given with --dir.
MaxExperiments == 2

(* ------------------------- module constants --------------------------- *)

HDF5_EXTENSION == ".h5"

STDIN_NEWLINE == "\n"

REGULAR_RERUNS == 1

RANDOM_SEED == FALSE

Dec(m, e) == [m |-> m, e |-> e]

\* 2.5
VIEW_RADIUS == Dec(25, 1)

\* 0.0
REJECTION_RATE == Dec(0, 1)

(* ------------------------- numbers and text --------------------------- *)

RECURSIVE Pow10(_)
Pow10(k) == IF k = 0 THEN 1 ELSE 10 * Pow10(k - 1)

DigitAtoms == <<"0", "1", "2", "3", "4", "5", "6", "7", "8", "9">>

IsDigit(a) == \E d \in 1..10 : DigitAtoms[d] = a

DigitValue(a) == (CHOOSE d \in 1..10 : DigitAtoms[d] = a) - 1

\* str(i) for an int i >= 0
RECURSIVE IntStr(_)
IntStr(i) == IF i < 10 THEN <<DigitAtoms[i + 1]>>
             ELSE IntStr(i \div 10) \o <<DigitAtoms[(i % 10) + 1]>>

\* The k low digits of i, zero padded on the left.
RECURSIVE PadStr(_, _)
PadStr(i, k) == IF k = 0 THEN <<>>
                ELSE PadStr(i \div 10, k - 1) \o <<DigitAtoms[(i % 10) + 1]>>

\* The shortest decimal of the same value with at least one fractional digit.
RECURSIVE DecNorm(_)
DecNorm(d) == IF d.e = 0 THEN Dec(d.m * 10, 1)
              ELSE IF d.e > 1 /\ d.m % 10 = 0 THEN DecNorm(Dec(d.m \div 10, d.e - 1))
              ELSE d

\* a * b on floats
DecMul(a, b) == DecNorm(Dec(a.m * b.m, a.e + b.e))

\* i / k on ints (true division) for k = 5
DecDivFive(i) == DecNorm(Dec(i * 2, 1))

\* int(d): truncation
DecInt(d) == d.m \div Pow10(d.e)

\* str(d) with the zeros after the point lost (0.05 printed as 0.5)
FloatStr_NoLeadingZeros(d) ==
  LET x == DecNorm(d)
  IN  IntStr(x.m \div Pow10(x.e)) \o <<".">> \o IntStr(x.m % Pow10(x.e))

\* str(d) for a float d >= 0 (repr: shortest form, always a fractional part)
FloatStr(d) == LET x == DecNorm(d)
               IN  IntStr(x.m \div Pow10(x.e)) \o <<".">> \o PadStr(x.m % Pow10(x.e), x.e)

RECURSIVE Concat(_)
Concat(ss) == IF ss = <<>> THEN <<>> ELSE Head(ss) \o Concat(Tail(ss))

\* str(path) of an absolute path
RECURSIVE PathStr(_)
PathStr(p) == IF p = <<>> THEN <<>> ELSE <<"/">> \o Head(p) \o PathStr(Tail(p))

\* name.endswith(HDF5_EXTENSION)
EndsWithH5(name) == Len(name) > 0 /\ name[Len(name)] = HDF5_EXTENSION

\* name.removesuffix(HDF5_EXTENSION)
RemoveSuffixH5(name) == IF EndsWithH5(name) THEN SubSeq(name, 1, Len(name) - 1) ELSE name

\* pathlib.Path(*parts): empty parts are dropped
PathOf(parts) == SelectSeq(parts, LAMBDA c : c # <<>>)

(* --------------------- tables of sweep_run_experiment ------------------ *)

\* DIST = 0.02 * VIEW_RADIUS
DIST == DecMul(Dec(2, 2), VIEW_RADIUS)

SWEEP_N_VIEWS == <<5, 10, 15, 20>>

SWEEP_INTRINSICS ==
  << [name |-> <<"RealSense_d455">>,          args |-> <<"--d455", " ", "1.0">>, idx |-> 0],
     [name |-> <<"RealSense_d455_Noise_02">>, args |-> <<"--d455", " ", "1.0", " ", "--noise", " ", "0.02">>, idx |-> 0],
     [name |-> <<"RealSense_d455_Noise_10">>, args |-> <<"--d455", " ", "1.0", " ", "--noise", " ", "0.10">>, idx |-> 0] >>

\* reps: "regular" is REGULAR_RERUNS, "random" is RANDOM_RERUNS
SWEEP_METHODS ==
  << [name |-> "Sphere_Uniform",   reruns |-> "regular",
      args |-> <<"--type", " ", "sphere", " ", "--uniform", " ", "--r", " ">> \o FloatStr(VIEW_RADIUS)],
     [name |-> "Sphere_Unordered", reruns |-> "random",
      args |-> <<"--type", " ", "sphere", " ", "--uniform", " ", "--unordered", " ", "--r", " ">> \o FloatStr(VIEW_RADIUS)],
     [name |-> "Sphere_Random",    reruns |-> "random",
      args |-> <<"--type", " ", "sphere", " ", "--r", " ">> \o FloatStr(VIEW_RADIUS)],
     [name |-> "Axis_X-axis",      reruns |-> "regular",
      args |-> <<"--type", " ", "axis", " ", "--x-axis", " ", "--uniform", " ", "--r", " ">> \o FloatStr(VIEW_RADIUS)],
     [name |-> "Axis_Y-axis",      reruns |-> "regular",
      args |-> <<"--type", " ", "axis", " ", "--y-axis", " ", "--uniform", " ", "--r", " ">> \o FloatStr(VIEW_RADIUS)],
     [name |-> "Axis_Z-axis",      reruns |-> "regular",
      args |-> <<"--type", " ", "axis", " ", "--z-axis", " ", "--uniform", " ", "--r", " ">> \o FloatStr(VIEW_RADIUS)],
     [name |-> "Axis_Random",      reruns |-> "random",
      args |-> <<"--type", " ", "axis", " ", "--random-axis", " ", "--uniform", " ", "--change-random", " ", " ", "--r", " ">> \o FloatStr(VIEW_RADIUS)] >>

(* ------------------------ tables of experiment_3 ----------------------- *)

TRUTH_FILES == {<<"rotor-blade">>, <<"bunny">>}

EXP3_N_VIEWS == <<9>>

\* (d1, d2, noise)
DIST_AND_NOISE ==
  << [d1 |-> Dec(6, 2),  d2 |-> Dec(3, 2),  noise |-> Dec(0, 1)],
     [d1 |-> Dec(6, 2),  d2 |-> Dec(3, 2),  noise |-> Dec(2, 2)],
     [d1 |-> Dec(18, 2), d2 |-> Dec(10, 2), noise |-> Dec(6, 2)] >>

\* Every profile given the index of the first entry of DIST_AND_NOISE.
Exp3Intrinsic_FirstEntry(k) ==
  [name |-> <<"RealSense_D455_Noise_">> \o IntStr(DecInt(DecMul(DIST_AND_NOISE[k + 1].noise, Dec(100, 0)))),
   args |-> <<"--d455", " ", "1.0", " ", "--noise", " ">> \o FloatStr(DIST_AND_NOISE[k + 1].noise),
   idx  |-> 0]

Exp3Intrinsic(k) ==
  [name |-> <<"RealSense_D455_Noise_">> \o IntStr(DecInt(DecMul(DIST_AND_NOISE[k + 1].noise, Dec(100, 0)))),
   args |-> <<"--d455", " ", "1.0", " ", "--noise", " ">> \o FloatStr(DIST_AND_NOISE[k + 1].noise),
   idx  |-> k]

EXP3_INTRINSICS == <<Exp3Intrinsic(0), Exp3Intrinsic(1), Exp3Intrinsic(2)>>

EXP3_METHODS ==
  << [name |-> "Occplane", reruns |-> "random",
      args |-> <<"--type", " ", "occplane", " ", "--keep-top-n", " ", "3", " ", "--complete-after", " ", "9", " ", "--radius", " ">>
               \o FloatStr(VIEW_RADIUS) \o <<" ">>] >>

(* ------------------------------- paths -------------------------------- *)

\* pathlib.Path(__file__).parent.resolve().parent: some absolute directory
PROJECT_ROOT_PATH == << <<"ForgeScan">> >>

GROUND_TRUTH_PATH == PROJECT_ROOT_PATH \o << <<"share">>, <<"Experiments">>, <<"GroundTruth">> >>

\* The regular files the GroundTruth directory may hold when a script starts.
GroundTruthDirs ==
  { { <<"notes", ".txt">> },
    { <<"bunny", ".h5">>, <<"notes", ".txt">> },
    { <<"bunny", ".h5">>, <<"rotor-blade", ".h5">>, <<"notes", ".txt">> } }

\* fpath_base of main
ResultsBase(s) ==
  IF s = "experiment_3"
  THEN PROJECT_ROOT_PATH \o << <<"share">>, <<"Experiments">>, <<"Experiment_3">>, <<"Results">> >>
  ELSE PROJECT_ROOT_PATH \o << <<"share">>, <<"Experiments">>, <<"Results">> >>

\* fpath.mkdir(parents=True): the directory and every missing ancestor
Ancestors(p) == { SubSeq(p, 1, k) : k \in 1..Len(p) }

(* ------------------------------- state -------------------------------- *)

VARIABLES
  script,              \* which script runs: "sweep_run_experiment" or "experiment_3"
  INTRINSICS,          \* ([Name], [Intrinsic args], [index into DIST_AND_NOISE])
  GROUND_TRUTH_FILES,  \* scene files found in GROUND_TRUTH_PATH, in iteration order
  METHODS,             \* ([Name], [Policy arg string], [Number of re-runs])
  N_VIEWS,             \* view-count budgets
  parsed_args,         \* the command line of the current run
  dirs, files,         \* the file system: existing directories and regular files
  pc,                  \* "idle", "loop", "communicate", "input", "done"
  pos,                 \* <<intr, scene, policy, n_views, rep>> indices of the next iteration
  n, N,                \* main's counter and total
  seed, fpath,         \* main's locals of the last processed configuration
  out,                 \* the lines printed by the last step
  proc,                \* the stdin text given to the engine subprocess, or NoProc
  engines,             \* the number of engine subprocesses that are running
  returncode           \* the exit status of the subprocess that ended, 0 when there is none

sweep_vars == <<script, INTRINSICS, GROUND_TRUTH_FILES, METHODS, N_VIEWS,
                parsed_args, dirs, files, pc, pos, n, N, seed, fpath, out, proc,
                engines, returncode>>

VARIABLES
  plot                 \* the state of the plotting script

plot_vars == <<plot>>

VARIABLES
  tool,                \* a driver script from its start-up on: the bin directory, the
                       \* executable found, and the run of a ground-truth or view tool
  sweeps               \* sweep processes that run side by side on one file system

tool_vars == <<tool>>

conc_vars == <<sweeps>>

vars == <<sweep_vars, plot_vars, tool_vars, conc_vars>>

\* The plotting script before it runs, on no results tree: the directory given
\* with --dir holds one experiment directory, the policy directories hold
\* view-count directories only, and plot_confusion runs without its flags.
NoPlot ==
  [pc |-> "idle", tool |-> "", key |-> "", views |-> {}, reps |-> 0, content |-> <<>>,
   policies |-> 0, todo |-> 0, listed |-> 0, opened |-> 0, created |-> 0, saved |-> {},
   error |-> "",
   listing |-> << [name |-> <<"Experiment">>, dir |-> TRUE] >>, entered |-> <<>>,
   selected |-> <<>>, prompted |-> FALSE, printed |-> <<>>, extra |-> {},
   plot_raw |-> FALSE, display_only |-> FALSE]

PlotIdle == plot = NoPlot

tables == <<script, INTRINSICS, GROUND_TRUTH_FILES, METHODS, N_VIEWS>>

NoProc == <<>>

NoArgs == [start_at |-> 0, no_override |-> FALSE, save_images |-> FALSE, pause |-> FALSE]

(* ---------------------- start-up: the executable ----------------------- *)

\* The scripts that drive an external executable.
SweepScripts == {"sweep_run_experiment", "experiment_3"}

ToolScripts == {"run_make_ground_truth", "run_precompute_views"}

DriverScripts == SweepScripts \cup ToolScripts

EXECUTABLE_NAME(s) ==
  CASE s = "run_make_ground_truth" -> "MakeGroundTruth"
    [] s = "run_precompute_views"  -> "PrecomputeViews"
    [] OTHER                       -> "RunExperiment"

BINARIES_PATH == PROJECT_ROOT_PATH \o << <<"bin">> >>

\* EXECUTABLE_PATH = None
None == <<>>

\* name.find(word): the index from 0 of the first word of the name that is the
\* given one, -1 when there is none.
Find(name, word) ==
  IF \E k \in DOMAIN name : name[k] = word
  THEN (CHOOSE k \in DOMAIN name : name[k] = word /\ \A j \in 1..(k - 1) : name[j] # word) - 1
  ELSE 0 - 1

\* item.is_file() and item.name.find(EXECUTABLE_NAME) == 0
IsExecutable(s, item) == item.file /\ Find(item.name, EXECUTABLE_NAME(s)) = 0

\* The loop over BINARIES_PATH.iterdir() without its break: the last match stays.
Locate_LastMatch(s, listing) ==
  LET hits == { k \in DOMAIN listing : IsExecutable(s, listing[k]) }
  IN  IF hits = {} THEN None
      ELSE BINARIES_PATH \o << listing[CHOOSE k \in hits : \A j \in hits : j <= k].name >>

\* The loop over BINARIES_PATH.iterdir(): EXECUTABLE_PATH when it ends.
Locate(s, listing) ==
  LET hits == { k \in DOMAIN listing : IsExecutable(s, listing[k]) }
  IN  IF hits = {} THEN None
      ELSE BINARIES_PATH \o << listing[CHOOSE k \in hits : \A j \in hits : k <= j].name >>

\* A driver script before its module code has run.
NoTool ==
  [pc |-> "start", script |-> "", bin |-> [exists |-> FALSE, is_dir |-> FALSE, listing |-> <<>>],
   EXECUTABLE_PATH |-> None, error |-> "", name |-> "", made |-> FALSE, launched |-> 0,
   stdin |-> <<>>, out |-> <<>>]

\* A driver script whose module code has found its executable.
Imported(s) ==
  LET listing == << [name |-> <<EXECUTABLE_NAME(s)>>, file |-> TRUE] >>
  IN  [NoTool EXCEPT !.pc = "imported", !.script = s,
                     !.bin = [exists |-> TRUE, is_dir |-> TRUE, listing |-> listing],
                     !.EXECUTABLE_PATH = Locate(s, listing)]

\* No sweep processes side by side.
NoSweeps == sweeps = <<>>

(* -------------------------- module start-up --------------------------- *)

RECURSIVE SumReps(_)
SumReps(ms) == IF ms = <<>> THEN 0 ELSE Head(ms).reps + SumReps(Tail(ms))

\* N with len(METHODS) in place of the sum of the re-runs
TotalOf_CountsPolicies(intrs, scenes, methods, views) ==
  Len(intrs) * Len(scenes) * Len(views) * Len(methods)

\* N of main
TotalOf(intrs, scenes, methods, views) ==
  Len(intrs) * Len(scenes) * Len(views) * SumReps(methods)

\* A METHODS row with its number of re-runs filled in.
MethodRow(m, random_reruns) ==
  [name |-> m.name, args |-> m.args,
   reps |-> IF m.reruns = "regular" THEN REGULAR_RERUNS ELSE random_reruns]

\* All orders in which iterdir() may list the files S of a directory.
Listings(S) == { l \in [1..Cardinality(S) -> S] : \A a, b \in DOMAIN l : a # b => l[a] # l[b] }

\* The scene files kept from a listing of the GroundTruth directory.
SceneFiles(s, listing) ==
  LET keep(name) == EndsWithH5(name)
                    /\ (s = "experiment_3" => RemoveSuffixH5(name) \in TRUTH_FILES)
      kept == SelectSeq(listing, keep)
  IN  [k \in DOMAIN kept |-> GROUND_TRUTH_PATH \o <<kept[k]>>]

ScriptIntrinsics(s) == IF s = "experiment_3" THEN EXP3_INTRINSICS ELSE SWEEP_INTRINSICS

ScriptMethods(s) == IF s = "experiment_3" THEN EXP3_METHODS ELSE SWEEP_METHODS

ScriptViews(s) == IF s = "experiment_3" THEN EXP3_N_VIEWS ELSE SWEEP_N_VIEWS

Init ==
  /\ script \in {"sweep_run_experiment", "experiment_3"}
  /\ \E ni \in 1..Len(ScriptIntrinsics(script)) :
       INTRINSICS = SubSeq(ScriptIntrinsics(script), 1, ni)
  /\ \E dir \in GroundTruthDirs : \E listing \in Listings(dir) :
       /\ GROUND_TRUTH_FILES = SceneFiles(script, listing)
       /\ script = "experiment_3" => Len(GROUND_TRUTH_FILES) = 2
  /\ \E nm \in 1..Len(ScriptMethods(script)), rr \in 1..MaxReruns :
       METHODS = [k \in 1..nm |->
                    MethodRow(ScriptMethods(script)[Len(ScriptMethods(script)) - nm + k], rr)]
  /\ \E nv \in 1..Len(ScriptViews(script)) :
       N_VIEWS = SubSeq(ScriptViews(script), 1, nv)
  /\ TotalOf(INTRINSICS, GROUND_TRUTH_FILES, METHODS, N_VIEWS) <= MaxConfigs
  /\ parsed_args = NoArgs
  /\ dirs = Ancestors(GROUND_TRUTH_PATH)
  /\ files = { GROUND_TRUTH_FILES[k] : k \in DOMAIN GROUND_TRUTH_FILES }
  /\ pc = "idle"
  /\ pos = <<1, 1, 1, 1, 1>>
  /\ n = 0
  /\ N = 0
  /\ seed = 0
  /\ fpath = <<>>
  /\ out = <<>>
  /\ proc = NoProc
  /\ engines = 0
  /\ returncode = 0
  /\ PlotIdle
  /\ tool = Imported(script)
  /\ NoSweeps

(* ----------------------------- call_process --------------------------- *)

Blanks(k) == [j \in 1..k |-> " "]

\* The view-count flags without the special case of Axis_Random.
ViewFlags_NoSpecialCase(s, policy_name, n_views) ==
  <<" ", "--n-views", " ">> \o IntStr(n_views)

\* The view-count flags of the policy line.
ViewFlags(s, policy_name, n_views) ==
  IF s = "sweep_run_experiment" /\ policy_name = "Axis_Random"
  THEN <<" ", "--n-views", " ", "5", " ", "--n-repeat", " ">> \o FloatStr(DecDivFive(n_views))
  ELSE <<" ", "--n-views", " ">> \o IntStr(n_views)

\* The data channel lines.
ChannelLines(s, intr) ==
  IF s = "experiment_3"
  THEN LET d == DIST_AND_NOISE[intr.idx + 1]
       IN  <<"--name", " ", "probability">> \o Blanks(3) \o <<"--type", " ", "Probability">> \o Blanks(2)
             \o <<"--d-min", " ", "-">> \o FloatStr(d.d1) \o <<" ", "--d-max", " ">> \o FloatStr(d.d2)
             \o <<" ", "--dtype", " ", "float", STDIN_NEWLINE>>
           \o <<"--name", " ", "TSDF">> \o Blanks(10) \o <<"--type", " ", "TSDF">> \o Blanks(9)
             \o <<"--d-min", " ", "-">> \o FloatStr(d.d1) \o <<" ", "--d-max", " ">> \o FloatStr(d.d1)
             \o <<" ", "--dtype", " ", "float", STDIN_NEWLINE>>
           \o <<"--name", " ", "binary", " ", "--type", " ", "binary", STDIN_NEWLINE>>
  ELSE <<"--name", " ", "probability">> \o Blanks(2) \o <<"--type", " ", "Probability">> \o Blanks(2)
         \o <<"--d-min", " ", "-">> \o FloatStr(DIST) \o <<" ", "--d-max", " ">> \o FloatStr(DIST)
         \o <<" ", "--dtype", " ", "float", STDIN_NEWLINE>>
       \o <<"--name", " ", "TSDF">> \o Blanks(9) \o <<"--type", " ", "TSDF">> \o Blanks(9)
         \o <<"--d-min", " ", "-">> \o FloatStr(DIST) \o <<" ", "--d-max", " ">> \o FloatStr(DIST)
         \o <<" ", "--dtype", " ", "float", STDIN_NEWLINE>>
       \o <<"--name", " ", "binary">> \o Blanks(7) \o <<"--type", " ", "binary", STDIN_NEWLINE>>

\* The stdin text with the scene line written before the image-saving line.
EncodeStdin_SceneFirst(s, fp, scene, intr, policy_name, policy, n_views, sd, save_images) ==
  PathStr(fp) \o <<STDIN_NEWLINE>>
  \o PathStr(scene) \o <<STDIN_NEWLINE>>
  \o (IF save_images THEN <<"y">> ELSE <<"don't save images">>) \o <<STDIN_NEWLINE>>
  \o FloatStr(REJECTION_RATE) \o <<STDIN_NEWLINE>>
  \o intr.args \o <<STDIN_NEWLINE>>
  \o policy
  \o ViewFlags(s, policy_name, n_views)
  \o <<" ", "--seed", " ">> \o IntStr(sd) \o <<STDIN_NEWLINE>>
  \o ChannelLines(s, intr)
  \o <<STDIN_NEWLINE>>

\* The stdin text call_process builds.
EncodeStdin(s, fp, scene, intr, policy_name, policy, n_views, sd, save_images) ==
  PathStr(fp) \o <<STDIN_NEWLINE>>
  \o (IF save_images THEN <<"y">> ELSE <<"don't save images">>) \o <<STDIN_NEWLINE>>
  \o PathStr(scene) \o <<STDIN_NEWLINE>>
  \o FloatStr(REJECTION_RATE) \o <<STDIN_NEWLINE>>
  \o intr.args \o <<STDIN_NEWLINE>>
  \o policy
  \o ViewFlags(s, policy_name, n_views)
  \o <<" ", "--seed", " ">> \o IntStr(sd) \o <<STDIN_NEWLINE>>
  \o ChannelLines(s, intr)
  \o <<STDIN_NEWLINE>>

(* ------------------------- the external engine ------------------------ *)

\* The first index from start on where atom a stands in t, Len(t) + 1 when nowhere.
IndexFrom(t, a, start) ==
  CHOOSE i \in start..(Len(t) + 1) :
    /\ i <= Len(t) => t[i] = a
    /\ \A j \in start..(i - 1) : t[j] # a

\* The pieces of t from index start on.
RECURSIVE SplitFrom(_, _, _)
SplitFrom(t, a, start) ==
  IF start > Len(t) THEN <<>>
  ELSE <<SubSeq(t, start, IndexFrom(t, a, start) - 1)>>
       \o SplitFrom(t, a, IndexFrom(t, a, start) + 1)

\* t split at every atom a; a text that ends with a yields no last empty piece.
Split(t, a) == SplitFrom(t, a, 1)

\* The lines of a text, each without its newline.
Lines(t) == Split(t, STDIN_NEWLINE)

\* An absolute path read back from its text.
ParsePath(t) == Tail(Split(t, "/"))

\* The file the engine is told to write: the first line of its stdin.
EngineOutputPath(stdin) == ParsePath(Lines(stdin)[1])

(* -------------------------------- main -------------------------------- *)

\* path.exists()
Exists(p) == p \in dirs \/ p \in files

\* The loop variables at position q.
IntrAt(q)   == INTRINSICS[q[1]]
SceneAt(q)  == GROUND_TRUTH_FILES[q[2]]
PolicyAt(q) == METHODS[q[3]]
ViewsAt(q)  == N_VIEWS[q[4]]
RepAt(q)    == q[5]

\* The nested for loops have no iteration at all.
NoIteration ==
  \/ Len(INTRINSICS) = 0 \/ Len(GROUND_TRUTH_FILES) = 0
  \/ Len(METHODS) = 0    \/ Len(N_VIEWS) = 0

\* The nested for loops are at their last iteration.
LastIteration(q) ==
  /\ q[5] >= PolicyAt(q).reps /\ q[4] >= Len(N_VIEWS) /\ q[3] >= Len(METHODS)
  /\ q[2] >= Len(GROUND_TRUTH_FILES) /\ q[1] >= Len(INTRINSICS)

\* The loops over METHODS and N_VIEWS nested the other way round.
NextIteration_ViewsOutside(q) ==
  IF q[5] < METHODS[q[3]].reps         THEN <<q[1], q[2], q[3], q[4], q[5] + 1>>
  ELSE IF q[3] < Len(METHODS)          THEN <<q[1], q[2], q[3] + 1, q[4], 1>>
  ELSE IF q[4] < Len(N_VIEWS)          THEN <<q[1], q[2], 1, q[4] + 1, 1>>
  ELSE IF q[2] < Len(GROUND_TRUTH_FILES) THEN <<q[1], q[2] + 1, 1, 1, 1>>
  ELSE <<q[1] + 1, 1, 1, 1, 1>>

\* The iteration after q: the innermost loop that has a next item advances,
\* the loops inside it restart.
NextIteration(q) ==
  IF q[5] < PolicyAt(q).reps           THEN <<q[1], q[2], q[3], q[4], q[5] + 1>>
  ELSE IF q[4] < Len(N_VIEWS)          THEN <<q[1], q[2], q[3], q[4] + 1, 1>>
  ELSE IF q[3] < Len(METHODS)          THEN <<q[1], q[2], q[3] + 1, 1, 1>>
  ELSE IF q[2] < Len(GROUND_TRUTH_FILES) THEN <<q[1], q[2] + 1, 1, 1, 1>>
  ELSE <<q[1] + 1, 1, 1, 1, 1>>

\* A failed invocation, or one without a result file, is run again.
Advance_RetryFailed ==
  IF returncode # 0 \/ (fpath # <<>> /\ fpath \notin files)
  THEN pc' = "loop" /\ pos' = pos
  ELSE IF LastIteration(pos) THEN pc' = "done" /\ pos' = pos
  ELSE pc' = "loop" /\ pos' = NextIteration(pos)

\* continue, or the end of the loop body
Advance ==
  IF LastIteration(pos) THEN pc' = "done" /\ pos' = pos
  ELSE pc' = "loop" /\ pos' = NextIteration(pos)

\* The relative path without its repetition index.
RelPath_NoRepetition(q) ==
  PathOf(<< INTRINSICS[q[1]].name,
            RemoveSuffixH5(GROUND_TRUTH_FILES[q[2]][Len(GROUND_TRUTH_FILES[q[2]])]),
            <<METHODS[q[3]].name>>,
            IntStr(N_VIEWS[q[4]]) >>)

\* pathlib.Path(intr[0], scene stem, policy[0], str(n_views), str(rep))
RelPath(q) ==
  PathOf(<< IntrAt(q).name,
            RemoveSuffixH5(SceneAt(q)[Len(SceneAt(q))]),
            <<PolicyAt(q).name>>,
            IntStr(ViewsAt(q)),
            IntStr(RepAt(q)) >>)

\* The directory of the configuration at position q.
ConfigDir(q) == ResultsBase(script) \o RelPath(q)

\* The result file of the configuration at position q.
ResultFile(q) == ConfigDir(q) \o << <<"results", HDF5_EXTENSION>> >>

\* str(path) of a relative path
RECURSIVE RelPathStr(_)
RelPathStr(p) == IF Len(p) <= 1 THEN Concat(p) ELSE Head(p) \o <<"/">> \o RelPathStr(Tail(p))

GeneratingLine(total, start) ==
  <<"Generating", " ">> \o IntStr(total) \o <<" ", "experiments,", " ", "beginning", " ", "at", " ",
    "experiment", " ">> \o IntStr(start) \o <<"...">>

ProgressLine(k, total, rel) ==
  <<"(">> \o IntStr(k) \o <<" ", "/", " ">> \o IntStr(total) \o <<")", " ">> \o RelPathStr(rel)

SkipLine == <<"\t", "Already exists. Skipping experiment...">>

\* The seeds of random-seed mode, whatever RANDOM_SEED says.
Seeds_AlwaysRandom(r) == 1..(SeedBound - 1)

\* The seeds main may give repetition r.
Seeds(r) == IF RANDOM_SEED THEN 1..(SeedBound - 1) ELSE {r}

\* The command lines of a run.
Args == [start_at : 0..(TotalOf(INTRINSICS, GROUND_TRUTH_FILES, METHODS, N_VIEWS) + 1),
         no_override : BOOLEAN, save_images : BOOLEAN, pause : BOOLEAN]

\* if (n <= start): continue
BeforeStart_Inclusive(k, start) == k <= start

\* if (n < start): continue
BeforeStart(k, start) == k < start

\* The skip taken without --no-override instead of with it.
SkipExisting_Inverted(fp, no_override) == Exists(fp) /\ ~no_override

\* The skip taken whatever --no-override says.
SkipExisting_IgnoresFlag(fp, no_override) == Exists(fp)

\* if fpath.exists() is True and parsed_args.no_override: continue
SkipExisting(fp, no_override) == Exists(fp) /\ no_override

\* python <script> <args>: main up to its first loop iteration.
Start ==
  /\ pc = "idle"
  /\ tool.pc = "imported" /\ tool.script = script
  /\ \E a \in Args : parsed_args' = a
  /\ n' = 0
  /\ N' = TotalOf(INTRINSICS, GROUND_TRUTH_FILES, METHODS, N_VIEWS)
  /\ out' = << GeneratingLine(N', parsed_args'.start_at) >>
  /\ pos' = <<1, 1, 1, 1, 1>>
  /\ pc' = IF NoIteration THEN "done" ELSE "loop"
  /\ UNCHANGED <<tables, dirs, files, seed, fpath, proc, engines, returncode, plot_vars, tool_vars, conc_vars>>

\* One iteration of the loop body, up to `continue` or to the launch of the engine.
Iterate ==
  /\ pc = "loop"
  /\ n' = n + 1
  /\ IF BeforeStart(n', parsed_args.start_at)
     THEN /\ Advance
          /\ out' = <<>>
          /\ UNCHANGED <<dirs, files, seed, fpath, proc, engines>>
     ELSE /\ \E sd \in Seeds(RepAt(pos)) : seed' = sd
          /\ dirs' = IF Exists(ConfigDir(pos)) THEN dirs ELSE dirs \cup Ancestors(ConfigDir(pos))
          /\ fpath' = ResultFile(pos)
          /\ IF SkipExisting(fpath', parsed_args.no_override)
             THEN /\ out' = << ProgressLine(n', N, RelPath(pos)), SkipLine >>
                  /\ Advance
                  /\ UNCHANGED <<proc, engines>>
             ELSE /\ out' = << ProgressLine(n', N, RelPath(pos)) >>
                  /\ proc' = EncodeStdin(script, fpath', SceneAt(pos), IntrAt(pos),
                                         PolicyAt(pos).name, PolicyAt(pos).args,
                                         ViewsAt(pos), seed', parsed_args.save_images)
                  /\ engines' = engines + 1
                  /\ pc' = "communicate"
                  /\ pos' = pos
          /\ UNCHANGED files
  /\ UNCHANGED <<tables, parsed_args, N, returncode, plot_vars, tool_vars, conc_vars>>

EngineStdout == <<"<engine stdout>">>

\* The exit statuses of the engine: success, or a failure.
ExitCodes == {0, 1}

\* The engine subprocess ends, with any exit status, having written its result
\* file or not.
EngineExit ==
  /\ engines > 0
  /\ \E wrote \in BOOLEAN :
       files' = IF wrote THEN files \cup {EngineOutputPath(proc)} ELSE files
  /\ \E code \in ExitCodes : returncode' = code
  /\ engines' = engines - 1
  /\ UNCHANGED <<tables, parsed_args, dirs, pc, pos, n, N, seed, fpath, out, proc, plot_vars, tool_vars, conc_vars>>

\* proc.communicate returns without waiting for the subprocess to end.
Returned_WithoutWaiting(e) == TRUE

\* proc.communicate does not return.
Returned_Never(e) == FALSE

\* proc.communicate returns once the subprocess has ended, e being the number
\* of running subprocesses.
Returned(e) == e = 0

\* proc.communicate returns: call_process goes on to its end, or to the pause.
Communicate ==
  /\ pc = "communicate"
  /\ Returned(engines)
  /\ proc' = NoProc
  /\ returncode' = 0
  /\ IF parsed_args.pause
     THEN out' = <<proc, EngineStdout>> /\ pc' = "input" /\ pos' = pos
     ELSE out' = <<>> /\ Advance
  /\ UNCHANGED <<tables, parsed_args, dirs, files, n, N, seed, fpath, engines, plot_vars, tool_vars, conc_vars>>

\* input("End of process...") returns.
EndOfProcess ==
  /\ pc = "input"
  /\ out' = <<>>
  /\ Advance
  /\ UNCHANGED <<tables, parsed_args, dirs, files, n, N, seed, fpath, proc, engines,
                 returncode, plot_vars, tool_vars, conc_vars>>

InterruptLine == <<"\n", "Exiting early on KeyboardInterrupt.">>

\* The try block that covers only the loop's own statements.
Caught_OutsideCallProcess(at) == at = "loop"

\* The places of the script that the try block of __main__ covers: all of main.
Caught(at) == at \in {"loop", "communicate", "input"}

\* A KeyboardInterrupt is raised: the terminal's interrupt reaches the script and
\* the engine subprocess it waits for, the exception leaves main and the process
\* ends.
Interrupt ==
  /\ pc \in {"loop", "communicate", "input"}
  /\ pc' = "idle"
  /\ parsed_args' = NoArgs
  /\ out' = IF Caught(pc) THEN <<InterruptLine>> ELSE <<InterruptLine, <<"Traceback">> >>
  /\ proc' = NoProc
  /\ engines' = 0
  /\ returncode' = 0
  /\ pos' = <<1, 1, 1, 1, 1>>
  /\ n' = 0 /\ N' = 0 /\ seed' = 0 /\ fpath' = <<>>
  /\ UNCHANGED <<tables, dirs, files, plot_vars, tool_vars, conc_vars>>

\* main returns and the process ends; the file system stays.
Exit ==
  /\ pc = "done"
  /\ pc' = "idle"
  /\ parsed_args' = NoArgs
  /\ pos' = <<1, 1, 1, 1, 1>>
  /\ n' = 0 /\ N' = 0 /\ seed' = 0 /\ fpath' = <<>> /\ out' = <<>>
  /\ UNCHANGED <<tables, dirs, files, proc, engines, returncode, plot_vars, tool_vars, conc_vars>>

Next == Start \/ Iterate \/ EngineExit \/ Communicate \/ EndOfProcess \/ Interrupt \/ Exit

Spec == Init /\ [][Next]_vars

\* One run of a script that nobody interrupts, in which the scheduler lets the
\* script take its steps, every engine subprocess ends and the operator answers
\* every pause prompt.
NextRun == Start \/ Iterate \/ EngineExit \/ Communicate \/ EndOfProcess

SpecRun ==
  /\ Init /\ [][NextRun]_vars
  /\ WF_vars(Iterate) /\ WF_vars(EngineExit) /\ WF_vars(Communicate) /\ WF_vars(EndOfProcess)

(* ---------------------- the nested order, as a rank -------------------- *)

\* The configurations of the Cartesian product, as index tuples.
Positions ==
  { q \in (1..Len(INTRINSICS)) \X (1..Len(GROUND_TRUTH_FILES)) \X (1..Len(METHODS))
          \X (1..Len(N_VIEWS)) \X (1..SumReps(METHODS)) : q[5] <= METHODS[q[3]].reps }

\* a comes before b when intrinsics vary slowest and repetitions fastest
LexLess(a, b) == \E k \in 1..5 : a[k] < b[k] /\ \A j \in 1..(k - 1) : a[j] = b[j]

\* The 1-based place of q in the nested order.
Rank(q) == Cardinality({ x \in Positions : LexLess(x, q) }) + 1

(* ------------------- one iteration, on the full tables ----------------- *)

\* A sweep over the whole tables of a script, resumed with --start-at at any
\* index: the iterations below the index have changed nothing, the iteration at
\* the index is about to run.
InitEncode ==
  /\ script \in {"sweep_run_experiment", "experiment_3"}
  /\ INTRINSICS = ScriptIntrinsics(script)
  /\ \E dir \in GroundTruthDirs : \E listing \in Listings(dir) :
       /\ GROUND_TRUTH_FILES = SceneFiles(script, listing)
       /\ script = "experiment_3" => Len(GROUND_TRUTH_FILES) = 2
  /\ \E rr \in 1..MaxReruns :
       METHODS = [k \in 1..Len(ScriptMethods(script)) |-> MethodRow(ScriptMethods(script)[k], rr)]
  /\ N_VIEWS = ScriptViews(script)
  /\ pos \in Positions
  /\ n = Rank(pos) - 1
  /\ N = TotalOf(INTRINSICS, GROUND_TRUTH_FILES, METHODS, N_VIEWS)
  /\ parsed_args \in [start_at : {n + 1}, no_override : {FALSE},
                      save_images : BOOLEAN, pause : {FALSE}]
  /\ dirs = Ancestors(GROUND_TRUTH_PATH)
  /\ files = { GROUND_TRUTH_FILES[k] : k \in DOMAIN GROUND_TRUTH_FILES }
  /\ pc = "loop"
  /\ seed = 0
  /\ fpath = <<>>
  /\ out = IF n = 0 THEN << GeneratingLine(N, parsed_args.start_at) >> ELSE <<>>
  /\ proc = NoProc
  /\ engines = 0
  /\ returncode = 0
  /\ PlotIdle
  /\ tool = Imported(script)
  /\ NoSweeps

SpecEncode == InitEncode /\ [][Iterate]_vars

(* ------------------------- reading text back -------------------------- *)

\* line.split(): the blank-separated fields of a line
Fields(line) == SelectSeq(Split(line, " "), LAMBDA f : f # <<>>)

\* int(field)
RECURSIVE ParseInt(_)
ParseInt(f) == IF f = <<>> THEN 0
               ELSE 10 * ParseInt(SubSeq(f, 1, Len(f) - 1)) + DigitValue(f[Len(f)])

IsIntText(f) == f # <<>> /\ \A k \in DOMAIN f : IsDigit(f[k])

\* float(field), for an optional sign, digits, "." and digits
ParseFloat(f) ==
  LET neg  == f # <<>> /\ Head(f) = "-"
      body == IF neg THEN Tail(f) ELSE f
      dot  == IndexFrom(body, ".", 1)
      ip   == SubSeq(body, 1, dot - 1)
      fp   == SubSeq(body, dot + 1, Len(body))
      mag  == ParseInt(ip) * Pow10(Len(fp)) + ParseInt(fp)
  IN  DecNorm(Dec(IF neg THEN 0 - mag ELSE mag, Len(fp)))

\* The field that follows flag fl in a list of fields (<<>> when the flag is absent).
RECURSIVE FlagValue(_, _)
FlagValue(fs, fl) == IF Len(fs) < 2 THEN <<>>
                     ELSE IF Head(fs) = <<fl>> THEN fs[2]
                     ELSE FlagValue(Tail(fs), fl)

HasFlag(fs, fl) == \E k \in DOMAIN fs : fs[k] = <<fl>>

\* The configuration at place k of the nested order.
PositionAt(k) == CHOOSE q \in Positions : Rank(q) = k

\* What a full sweep (start-at 1, no skipping) writes to the engine at index k.
FullSweepStdin(k) ==
  LET q == PositionAt(k)
  IN  EncodeStdin(script, ResultFile(q), SceneAt(q), IntrAt(q), PolicyAt(q).name,
                  PolicyAt(q).args, ViewsAt(q), RepAt(q), parsed_args.save_images)

(* --------------- plotting scripts: values and metrics ----------------- *)

\* A float64 value of the metric arrays: a ratio n/d in lowest terms, or one of
\* the values numpy gives a division by zero; "fault" stands for a raised
\* ZeroDivisionError, which is no value.
RECURSIVE GCD(_, _)
GCD(a, b) == IF b = 0 THEN a ELSE GCD(b, a % b)

Abs(i) == IF i < 0 THEN 0 - i ELSE i

LCM(a, b) == (a \div GCD(a, b)) * b

Num(a, b) == LET g == GCD(Abs(a), b) IN [kind |-> "num", n |-> a \div g, d |-> b \div g]

NaN == [kind |-> "nan", n |-> 0, d |-> 0]

Inf == [kind |-> "inf", n |-> 0, d |-> 0]

Fault == [kind |-> "fault", n |-> 0, d |-> 0]

Zero == Num(0, 1)

IsNum(x) == x.kind = "num"

\* a / float(b) in Python floats: a zero divisor raises ZeroDivisionError
Div_Raising(a, b) == IF b = 0 THEN Fault ELSE Num(a, b)

\* a / float(b), a being a numpy.float64 count and b a sum of counts: numpy
\* divides by zero with a RuntimeWarning and gives nan for 0/0 and inf for a/0
Div(a, b) == IF b # 0 THEN Num(a, b) ELSE IF a = 0 THEN NaN ELSE Inf

\* x + y of float64 values
Add(x, y) ==
  IF x.kind = "fault" \/ y.kind = "fault" THEN Fault
  ELSE IF x.kind = "nan" \/ y.kind = "nan" THEN NaN
  ELSE IF x.kind = "inf" \/ y.kind = "inf" THEN Inf
  ELSE LET l == LCM(x.d, y.d) IN Num(x.n * (l \div x.d) + y.n * (l \div y.d), l)

\* x - y of float64 values (inf - inf is nan)
Sub(x, y) ==
  IF x.kind = "fault" \/ y.kind = "fault" THEN Fault
  ELSE IF x.kind = "nan" \/ y.kind = "nan" \/ (x.kind = "inf" /\ y.kind = "inf") THEN NaN
  ELSE IF x.kind = "inf" \/ y.kind = "inf" THEN Inf
  ELSE LET l == LCM(x.d, y.d) IN Num(x.n * (l \div x.d) - y.n * (l \div y.d), l)

\* x * y of float64 values that are not negative
Mul(x, y) ==
  IF x.kind = "fault" \/ y.kind = "fault" THEN Fault
  ELSE IF x.kind = "nan" \/ y.kind = "nan" THEN NaN
  ELSE IF x.kind = "inf" \/ y.kind = "inf"
       THEN (IF (IsNum(x) /\ x.n = 0) \/ (IsNum(y) /\ y.n = 0) THEN NaN ELSE Inf)
  ELSE Num(x.n * y.n, x.d * y.d)

\* x <= y of finite values
Leq(x, y) == x.n * y.d <= y.n * x.d

\* Index location in the extracted Nx4 matrix
TP == 0
TN == 1
FP == 2
FN == 3

accuracy(true_positive, true_negative, false_positive, false_negative) ==
  Div(true_positive + true_negative,
      true_positive + false_positive + true_negative + false_negative)

precision(true_positive, false_positive) ==
  Div(true_positive, true_positive + false_positive)

sensitivity(true_positive, false_negative) ==
  Div(true_positive, true_positive + false_negative)

specificity(true_negative, false_positive) ==
  Div(true_negative, true_negative + false_positive)

\* The true negative rate returned in place of the false positive rate.
fall_out_TrueNegativeRate(true_negative, false_positive) ==
  Div(true_negative, false_positive + true_negative)

fall_out(true_negative, false_positive) ==
  Div(false_positive, false_positive + true_negative)

miss_rate(true_positive, false_negative) ==
  Div(false_negative, false_negative + true_positive)

arr_accuracy(arr) == accuracy(arr[TP], arr[TN], arr[FP], arr[FN])

arr_precision(arr) == precision(arr[TP], arr[FP])

arr_sensitivity(arr) == sensitivity(arr[TP], arr[FN])

arr_specificity(arr) == specificity(arr[TN], arr[FP])

arr_balanced_accuracy(arr) ==
  Mul(Num(1, 2), Add(sensitivity(arr[TP], arr[FN]), specificity(arr[TN], arr[FP])))

arr_fall_out(arr) == fall_out(arr[TN], arr[FP])

arr_miss_rate(arr) == miss_rate(arr[TP], arr[FN])

arr_true_positive(arr) == Num(arr[TP], 1)

arr_true_negative(arr) == Num(arr[TN], 1)

arr_false_positive(arr) == Num(arr[FP], 1)

arr_false_negative(arr) == Num(arr[FN], 1)

\* The keys of PLOT_OPTIONS.
PLOT_OPTIONS ==
  {"accuracy", "precision", "sensitivity", "specificity", "balanced-accuracy", "fall-out",
   "miss-rate", "true-positive", "true-negative", "false-positive", "false-negative"}

\* PLOT_OPTIONS[plot_key][1](arr)
Metric(plot_key, arr) ==
  CASE plot_key = "accuracy"          -> arr_accuracy(arr)
    [] plot_key = "precision"         -> arr_precision(arr)
    [] plot_key = "sensitivity"       -> arr_sensitivity(arr)
    [] plot_key = "specificity"       -> arr_specificity(arr)
    [] plot_key = "balanced-accuracy" -> arr_balanced_accuracy(arr)
    [] plot_key = "fall-out"          -> arr_fall_out(arr)
    [] plot_key = "miss-rate"         -> arr_miss_rate(arr)
    [] plot_key = "true-positive"     -> arr_true_positive(arr)
    [] plot_key = "true-negative"     -> arr_true_negative(arr)
    [] plot_key = "false-positive"    -> arr_false_positive(arr)
    [] plot_key = "false-negative"    -> arr_false_negative(arr)

(* ------------------ plotting scripts: result files -------------------- *)

confusion_groups ==
  <<"OccupancyConfusion_TSDF", "OccupancyConfusion_binary", "OccupancyConfusion_probability">>

confusion_grid_labels == <<"TSDF", "Space Carving", "Occupation Probability">>

n_group == Len(confusion_groups)

\* A row [TP, TN, FP, FN] of confusion counts, indexed as the Nx4 matrix is.
Counts(tp, tn, fp, fn) == [c \in 0..3 |-> CASE c = TP -> tp [] c = TN -> tn [] c = FP -> fp [] c = FN -> fn]

\* The result files the engine may have left: which groups they hold and the
\* confusion counts of each group before the first view.
ResultFiles ==
  [ full  |-> [metric |-> TRUE,
               base   |-> [OccupancyConfusion_TSDF        |-> Counts(1, 0, 1, 2),
                           OccupancyConfusion_binary      |-> Counts(1, 1, 0, 0),
                           OccupancyConfusion_probability |-> Counts(80, 10, 5, 5),
                           OccupancyConfusion             |-> Counts(2, 1, 1, 0)]],
    other |-> [metric |-> TRUE,
               base   |-> [OccupancyConfusion_TSDF        |-> Counts(0, 1, 1, 0),
                           OccupancyConfusion_binary      |-> Counts(2, 0, 0, 1),
                           OccupancyConfusion_probability |-> Counts(0, 2, 1, 1),
                           OccupancyConfusion             |-> Counts(1, 1, 1, 1)]],
    empty |-> [metric |-> TRUE,
               base   |-> [OccupancyConfusion_TSDF        |-> Counts(0, 0, 0, 0),
                           OccupancyConfusion_binary      |-> Counts(0, 0, 0, 0),
                           OccupancyConfusion_probability |-> Counts(0, 0, 0, 0),
                           OccupancyConfusion             |-> Counts(0, 0, 0, 0)]],
    nobinary |-> [metric |-> TRUE,
                  base   |-> [OccupancyConfusion_TSDF        |-> Counts(1, 1, 1, 1),
                              OccupancyConfusion_probability |-> Counts(1, 2, 0, 1)]],
    nometric |-> [metric |-> FALSE, base |-> <<>>],
    onerow |-> [metric |-> TRUE,
                base   |-> [OccupancyConfusion_TSDF        |-> Counts(1, 0, 1, 2),
                            OccupancyConfusion_binary      |-> Counts(1, 1, 0, 0),
                            OccupancyConfusion_probability |-> Counts(3, 1, 0, 0),
                            OccupancyConfusion             |-> Counts(2, 1, 1, 0)]],
    longer |-> [metric |-> TRUE,
                base   |-> [OccupancyConfusion_TSDF        |-> Counts(1, 0, 1, 2),
                            OccupancyConfusion_binary      |-> Counts(1, 1, 0, 0),
                            OccupancyConfusion_probability |-> Counts(3, 1, 0, 0),
                            OccupancyConfusion             |-> Counts(2, 1, 1, 0)]] ]

FileKinds == DOMAIN ResultFiles

\* The files of a sweep that ran to its end: one data row for every view.
SweepFileKinds == FileKinds \ {"onerow", "longer"}

\* The number of data rows of a result file found in the directory of v views:
\* v, but one row only in a file of kind onerow and one row more in a file of
\* kind longer.
Rows(kind, v) ==
  CASE kind = "onerow" -> 1
    [] kind = "longer" -> v + 1
    [] OTHER           -> v

\* Row k (from 1) of the dataset "data" of a group, without its step column:
\* every view added turns one false negative into a true positive, or adds one.
DataRow(kind, group, k) ==
  LET b == ResultFiles[kind].base[group]
      moved == IF b[FN] >= k - 1 THEN k - 1 ELSE b[FN]
  IN  Counts(b[TP] + (k - 1), b[TN], b[FP], b[FN] - moved)

\* h5_file["Metric"][group] exists
HasGroup(kind, group) == ResultFiles[kind].metric /\ group \in DOMAIN ResultFiles[kind].base

(* ------------------ plotting scripts: aggregation --------------------- *)

RECURSIVE Sum(_)
Sum(xs) == IF xs = <<>> THEN Zero ELSE Add(Head(xs), Sum(Tail(xs)))

\* The sum over the repetitions in place of their mean.
Mean_WithoutDivision(xs) == Sum(xs)

\* numpy mean over the repetitions
Mean(xs) ==
  LET t == Sum(xs) IN IF IsNum(t) THEN Num(t.n, t.d * Len(xs)) ELSE t

\* The square of numpy std over the repetitions (the population variance).
StdSquared(xs) ==
  LET m == Mean(xs)
      sq == [i \in DOMAIN xs |-> Mul(Sub(xs[i], m), Sub(xs[i], m))]
  IN  IF \A i \in DOMAIN xs : IsNum(xs[i]) THEN Mean(sq) ELSE NaN

\* numpy min over the repetitions (a nan gives nan)
Min(xs) ==
  IF \E i \in DOMAIN xs : xs[i].kind = "nan" THEN NaN
  ELSE IF \A i \in DOMAIN xs : xs[i].kind = "inf" THEN Inf
  ELSE LET fin == { i \in DOMAIN xs : IsNum(xs[i]) }
       IN  xs[CHOOSE i \in fin : \A j \in fin : Leq(xs[i], xs[j])]

\* numpy max over the repetitions (a nan gives nan)
Max(xs) ==
  IF \E i \in DOMAIN xs : xs[i].kind = "nan" THEN NaN
  ELSE IF \E i \in DOMAIN xs : xs[i].kind = "inf" THEN Inf
  ELSE xs[CHOOSE i \in DOMAIN xs : \A j \in DOMAIN xs : Leq(xs[j], xs[i])]

(* ---------------- plot_experiment_result_confusion -------------------- *)

\* The view-count directories, sorted on their integer names with reverse=True.
RECURSIVE SortedViews(_)
SortedViews(vs) ==
  IF vs = {} THEN <<>>
  ELSE LET top == CHOOSE v \in vs : \A w \in vs : w <= v
       IN  <<top>> \o SortedViews(vs \ {top})

\* [ np.zeros(...) ] * len: a list of len references to the one array made, array 1.
ListOfOneArray(len) == [g \in 1..len |-> 1]

\* The slice [:, i] of np.zeros((views_plus_one, len(reps_dirs)))
ZerosResult(v) == [x \in 1..(v + 1) |-> Zero]

\* The slice [:, :, i] of np.zeros((int(views.name), 4, len(reps_dirs)))
ZerosData(v) == [k \in 1..v |-> Counts(0, 0, 0, 0)]

\* Every result file is taken to hold every group.
FirstUnreadable_NoneReported(content) == 0

\* The first repetition whose result file lacks the Metric group or one of the
\* confusion groups, 0 when every file has them all.
FirstUnreadable(content) ==
  LET bad == { i \in DOMAIN content :
                 \E g \in 1..n_group : ~HasGroup(content[i], confusion_groups[g]) }
  IN  IF bad = {} THEN 0 ELSE CHOOSE i \in bad : \A j \in bad : i <= j

\* data[g][:, :, i] = ... takes r rows into v places when r = v, and when r = 1
\* by broadcasting; numpy raises ValueError otherwise.
Fits(v, r) == r = v \/ r = 1

\* The v rows of data[g][:, :, i] after the rows read are assigned to it.
Assigned(v, read) ==
  [step \in 1..v |-> IF Len(read) = v THEN read[step]
                     ELSE IF Len(read) >= 1 THEN read[1]
                     ELSE Counts(0, 0, 0, 0)]

\* The first repetition whose rows do not fit the array of the directory of v
\* views, 0 when those of every file fit.
FirstMisshapen(v, content) ==
  LET bad == { i \in DOMAIN content :
                 HasGroup(content[i], confusion_groups[1]) /\ ~Fits(v, Rows(content[i], v)) }
  IN  IF bad = {} THEN 0 ELSE CHOOSE i \in bad : \A j \in bad : i <= j

\* The loop over confusion_groups, from group g on, of the repetition whose
\* result file is of the given kind: a holds the slices of that repetition
\* ([:, :, i] and [1:, i]) of the arrays that exist, data and result are the
\* lists of references to the arrays.
RECURSIVE FillArrays(_, _, _, _, _, _, _)
FillArrays(plot_key, v, kind, data, result, g, a) ==
  IF g > n_group THEN a
  ELSE LET rows == Assigned(v, [step \in 1..Rows(kind, v) |->
                                  DataRow(kind, confusion_groups[g], step)])
           d == IF HasGroup(kind, confusion_groups[g])
                THEN [a.data EXCEPT ![data[g]] = rows]
                ELSE a.data
           col == [x \in 1..(v + 1) |->
                     IF x = 1 THEN a.result[result[g]][1]
                     ELSE Metric(plot_key, d[data[g]][x - 1])]
           r == [a.result EXCEPT ![result[g]] = col]
       IN  FillArrays(plot_key, v, kind, data, result, g + 1, [data |-> d, result |-> r])

\* The line drawn in the figure of group g for the view-count directory v, a[i]
\* being the slices of repetition i.
LineOf(v, reps, result, a, g) ==
  LET at(x) == [i \in 1..reps |-> a[i].result[result[g]][x]]
      xs == 1..(v + 1)
  IN  IF reps > 1
      THEN [label |-> <<v, " Views", " (Average)">>,
            xdata |-> [x \in xs |-> x - 1],
            ydata |-> [x \in xs |-> Mean(at(x))],
            yerr  |-> [x \in xs |-> StdSquared(at(x))],
            ymin  |-> [x \in xs |-> Min(at(x))],
            ymax  |-> [x \in xs |-> Max(at(x))]]
      ELSE [label |-> <<v, " Views">>,
            xdata |-> [x \in xs |-> x - 1],
            ydata |-> [x \in xs |-> a[1].result[result[g]][x]],
            yerr  |-> <<>>, ymin |-> <<>>, ymax |-> <<>>]

\* The body of the loop over views_dirs for one view-count directory: the
\* lines it adds to the three figures.
ViewsLines(plot_key, v, content) ==
  LET data   == ListOfOneArray(n_group)
      result == ListOfOneArray(n_group)
      a0 == [data   |-> [id \in {data[g] : g \in 1..n_group} |-> ZerosData(v)],
             result |-> [id \in {result[g] : g \in 1..n_group} |-> ZerosResult(v)]]
      a  == [i \in DOMAIN content |->
               FillArrays(plot_key, v, content[i], data, result, 1, a0)]
  IN  [g \in 1..n_group |-> LineOf(v, Len(content), result, a, g)]

\* A value of some line is a raised error.
HasFault(lines) ==
  \E g \in DOMAIN lines : \E x \in DOMAIN lines[g].ydata : lines[g].ydata[x].kind = "fault"

\* The names of the directories of a policy directory: str(n_views) for the
\* view counts a sweep ran, and whatever else was put there.
PolicyDirNames(views, extra) == { IntStr(v) : v \in views } \cup extra

\* The line printed when a directory name is no integer.
SortMessage ==
  <<"Could not turn directory name into integer for the number of views generated by the policy.">>

\* plot_policy_sweep on a policy directory with directories of the given names:
\* the error that ends it, the number of result files it opened, the lines of
\* its three figures, and what it printed.
plot_policy_sweep(plot_key, names, content) ==
  LET views == { ParseInt(nm) : nm \in { x \in names : IsIntText(x) } }
      dirs_sorted == SortedViews(views)
      bad == FirstUnreadable(content)
      misdirs == { j \in DOMAIN dirs_sorted : FirstMisshapen(dirs_sorted[j], content) # 0 }
      misdir == IF misdirs = {} THEN 0 ELSE CHOOSE j \in misdirs : \A k \in misdirs : j <= k
      mis == IF misdir = 0 THEN 0 ELSE FirstMisshapen(dirs_sorted[misdir], content)
      lines == [j \in DOMAIN dirs_sorted |-> ViewsLines(plot_key, dirs_sorted[j], content)]
      raised(error, opened, printed) ==
        [error |-> error, opened |-> opened, figures |-> <<>>, printed |-> printed]
  IN  IF plot_key \notin PLOT_OPTIONS THEN raised("KeyError", 0, <<>>)
      ELSE IF \E nm \in names : ~IsIntText(nm) THEN raised("ValueError", 0, <<SortMessage>>)
      ELSE IF dirs_sorted # <<>> /\ bad # 0 /\ ~(misdir = 1 /\ mis < bad)
      THEN raised("KeyError", bad, <<>>)
      ELSE IF mis # 0 THEN raised("ValueError", (misdir - 1) * Len(content) + mis, <<>>)
      ELSE IF \E j \in DOMAIN lines : HasFault(lines[j])
      THEN raised("ZeroDivisionError", 1, <<>>)
      ELSE [error |-> "", opened |-> Len(dirs_sorted) * Len(content),
            figures |-> [g \in 1..n_group |-> [j \in DOMAIN lines |-> lines[j][g]]],
            printed |-> <<>>]

\* The --plot values tried: the keys of PLOT_OPTIONS and one that is none.
PlotArgs == PLOT_OPTIONS \cup {"f1-score"}

\* main without its assertion.
ValidPlot_Unchecked(key) == TRUE

\* assert parsed_args.plot in PLOT_OPTIONS.keys()
ValidPlot(key) == key \in PLOT_OPTIONS

\* The name of the saved figure.
FigureName(policy, plot_key) == <<policy, "_", plot_key, "_", "Results.jpeg">>

\* What may be typed at the prompt of select_experiment.
EnteredTexts == { <<"0">>, <<"1">>, <<"-", "1">>, <<"7">>, <<"x">> }

\* int(text) succeeds: digits, with a sign or without
IsSignedInt(t) ==
  IsIntText(t) \/ (t # <<>> /\ Head(t) \in {"-", "+"} /\ IsIntText(Tail(t)))

\* int(text)
SignedInt(t) ==
  IF t # <<>> /\ Head(t) = "-" THEN 0 - ParseInt(Tail(t))
  ELSE IF t # <<>> /\ Head(t) = "+" THEN ParseInt(Tail(t))
  ELSE ParseInt(t)

NoExperimentsLine == <<"No experiment directories available">>

\* What select_experiment prints before it reads the index.
Menu(experiments) ==
  << <<"Please select which experiment directory to use:">> >>
  \o [i \in DOMAIN experiments |-> <<"[">> \o IntStr(i - 1) \o <<"]", " ">> \o experiments[i].name]

\* select_experiment with a return after the line printed for no directories.
select_experiment_EmptyReturns(listing, entered) ==
  LET experiments == SelectSeq(listing, LAMBDA x : x.dir)
      k == Len(experiments)
      idx == SignedInt(entered)
      asked(error, returned) ==
        [error |-> error, returned |-> returned, prompted |-> TRUE, printed |-> Menu(experiments)]
  IN  IF k = 0
      THEN [error |-> "", returned |-> None, prompted |-> FALSE,
            printed |-> <<NoExperimentsLine>>]
      ELSE IF k = 1
      THEN [error |-> "", returned |-> experiments[1].name, prompted |-> FALSE,
            printed |-> <<>>]
      ELSE IF ~IsSignedInt(entered) THEN asked("ValueError", None)
      ELSE IF idx >= k \/ idx < 0 - k THEN asked("IndexError", None)
      ELSE asked("", experiments[IF idx >= 0 THEN idx + 1 ELSE k + idx + 1].name)

\* select_experiment on the listing of the directory, with the text typed at its
\* prompt if it comes to that: the error that ends it or the name of the
\* directory returned, and what it printed.
select_experiment(listing, entered) ==
  LET experiments == SelectSeq(listing, LAMBDA x : x.dir)
      k == Len(experiments)
      idx == SignedInt(entered)
      said == IF k = 0 THEN <<NoExperimentsLine>> ELSE <<>>
      asked(error, returned) ==
        [error |-> error, returned |-> returned, prompted |-> TRUE,
         printed |-> said \o Menu(experiments)]
  IN  IF k = 1
      THEN [error |-> "", returned |-> experiments[1].name, prompted |-> FALSE,
            printed |-> <<>>]
      ELSE IF ~IsSignedInt(entered) THEN asked("ValueError", None)
      ELSE IF idx >= k \/ idx < 0 - k THEN asked("IndexError", None)
      ELSE asked("", experiments[IF idx >= 0 THEN idx + 1 ELSE k + idx + 1].name)

\* python plot_experiment_result_confusion.py --plot <key>: main up to its first
\* call of plot_policy_sweep. Every experiment directory holds one shape
\* directory.
PlotMain ==
  /\ plot.pc = "idle"
  /\ \E key \in PlotArgs, entered \in EnteredTexts :
       LET chosen == select_experiment(plot.listing, entered)
       IN  plot' = IF ~ValidPlot(key)
                   THEN [plot EXCEPT !.pc = "failed", !.tool = "plot_experiment_result_confusion",
                                     !.key = key, !.error = "AssertionError"]
                   ELSE IF chosen.error # ""
                   THEN [plot EXCEPT !.pc = "failed", !.tool = "plot_experiment_result_confusion",
                                     !.key = key, !.error = chosen.error, !.listed = 1,
                                     !.entered = entered, !.prompted = chosen.prompted,
                                     !.printed = chosen.printed]
                   ELSE [plot EXCEPT !.pc = "main", !.tool = "plot_experiment_result_confusion",
                                     !.key = key, !.todo = 1, !.listed = 3,
                                     !.entered = IF chosen.prompted THEN entered ELSE <<>>,
                                     !.prompted = chosen.prompted, !.printed = chosen.printed,
                                     !.selected = chosen.returned]
  /\ UNCHANGED <<sweep_vars, tool_vars, conc_vars>>

\* One call of plot_policy_sweep by main, and the end of main after the last.
PlotPolicySweep ==
  /\ plot.pc = "main" /\ plot.tool = "plot_experiment_result_confusion"
  /\ \E res \in {plot_policy_sweep(plot.key, PolicyDirNames(plot.views, plot.extra),
                                     plot.content)} :
     LET seen == plot.listed + 1
                 + (IF res.error = "" THEN Cardinality(plot.views)
                    ELSE IF res.printed # <<>> THEN 0 ELSE 1)
     IN  plot' =
           IF res.error # ""
           THEN [plot EXCEPT !.pc = "failed", !.error = res.error,
                             !.printed = @ \o res.printed,
                             !.listed = IF plot.key \in PLOT_OPTIONS THEN seen ELSE @,
                             !.opened = @ + res.opened,
                             !.created = IF plot.key \in PLOT_OPTIONS THEN @ + n_group ELSE @]
           ELSE [plot EXCEPT !.pc = IF plot.todo = plot.policies THEN "done" ELSE "main",
                             !.todo = @ + 1, !.listed = seen,
                             !.opened = @ + res.opened, !.created = @ + n_group,
                             !.saved = @ \cup { [name |-> FigureName(plot.todo, plot.key),
                                                 policy |-> plot.todo,
                                                 source |-> g,
                                                 dir |-> confusion_grid_labels[g],
                                                 lines |-> res.figures[g]] : g \in 1..n_group }]
  /\ UNCHANGED <<sweep_vars, tool_vars, conc_vars>>

(* --------------------------- plot_confusion ---------------------------- *)

\* get_metric_occupancy_confusion_group and the series of plot_acc_pre for the
\* k-th result file found, a file in the directory of v views; raw holds the
\* series of plot_raw_confusion.
plot_file(kind, v) ==
  IF ~HasGroup(kind, "OccupancyConfusion")
  THEN [error |-> "KeyError", raw |-> <<>>, lines |-> <<>>]
  ELSE LET row(k) == DataRow(kind, "OccupancyConfusion", k)
           rows == 1..Rows(kind, v)
       IN  [error |-> "",
            raw   |-> [c \in 1..4 |-> [label |-> <<"data", c>>,
                                       ydata |-> [k \in rows |-> Num(row(k)[c - 1], 1)]]],
            lines |-> << [label |-> <<"Accuracy">>,
                          ydata |-> [k \in rows |-> accuracy(row(k)[TP], row(k)[TN],
                                                            row(k)[FP], row(k)[FN])]],
                         [label |-> <<"Precision">>,
                          ydata |-> [k \in rows |-> precision(row(k)[TP], row(k)[FP])]] >>]

\* python plot_confusion.py --file <policy directory>: main up to its first
\* call of plot_file; the files are those of the view-count and repetition
\* directories.
PlotConfusionMain ==
  /\ plot.pc = "idle"
  /\ plot' = [plot EXCEPT !.pc = "main", !.tool = "plot_confusion", !.todo = 1, !.listed = 1]
  /\ UNCHANGED <<sweep_vars, tool_vars, conc_vars>>

\* image_fpath of plot_raw_confusion for a result file in the given directory
RawImageName == <<"acc_pre.png">>

\* image_fpath of plot_acc_pre for a result file in the given directory
AccPreImageName == <<"acc_pre.png">>

\* plt.savefig: the figure is written to its path, over what was there.
SaveFig(saved, f) == { x \in saved : ~(x.dir = f.dir /\ x.name = f.name) } \cup {f}

\* One call of plot_file by main, and the end of main after the last.
PlotFile ==
  /\ plot.pc = "main" /\ plot.tool = "plot_confusion"
  /\ LET vs == SortedViews(plot.views)
         j == ((plot.todo - 1) \div plot.reps) + 1
         i == ((plot.todo - 1) % plot.reps) + 1
         res == plot_file(plot.content[i], vs[j])
         raw == [name |-> RawImageName, title |-> "Raw Confusion Values",
                 policy |-> plot.todo, source |-> 0, dir |-> <<vs[j], i>>, lines |-> res.raw]
         acc == [name |-> AccPreImageName, title |-> "Reconstruction Accuracy and Precision",
                 policy |-> plot.todo, source |-> 0, dir |-> <<vs[j], i>>, lines |-> res.lines]
         after_raw == IF plot.plot_raw /\ ~plot.display_only THEN SaveFig(plot.saved, raw)
                      ELSE plot.saved
         after_acc == IF ~plot.display_only THEN SaveFig(after_raw, acc) ELSE after_raw
     IN  plot' =
           IF res.error # ""
           THEN [plot EXCEPT !.pc = "failed", !.error = res.error, !.opened = @ + 1]
           ELSE [plot EXCEPT !.pc = IF plot.todo = Len(vs) * plot.reps THEN "done" ELSE "main",
                             !.todo = @ + 1, !.opened = @ + 1,
                             !.created = @ + (IF plot.plot_raw THEN 2 ELSE 1),
                             !.saved = after_acc]
  /\ UNCHANGED <<sweep_vars, tool_vars, conc_vars>>

\* The sets of view-count directories of a policy directory: one view count, or
\* all of them.
ViewsTrees == { {v} : v \in 1..MaxViews } \cup { 1..MaxViews }

\* A results tree as a sweep leaves it: view-count directories, each with the
\* same repetition directories, each with one result file.
InitPlot ==
  /\ \E vs \in ViewsTrees, r \in 1..MaxReps, np \in 1..MaxPolicies :
       \E c \in [1..r -> SweepFileKinds] :
         plot = [NoPlot EXCEPT !.views = vs, !.reps = r, !.content = c, !.policies = np]
  /\ script = "sweep_run_experiment"
  /\ INTRINSICS = <<>> /\ GROUND_TRUTH_FILES = <<>> /\ METHODS = <<>> /\ N_VIEWS = <<>>
  /\ parsed_args = NoArgs
  /\ dirs = {} /\ files = {}
  /\ pc = "idle"
  /\ pos = <<1, 1, 1, 1, 1>>
  /\ n = 0 /\ N = 0 /\ seed = 0 /\ fpath = <<>> /\ out = <<>>
  /\ proc = NoProc /\ engines = 0 /\ returncode = 0
  /\ tool = NoTool
  /\ NoSweeps

NextPlot == PlotMain \/ PlotPolicySweep \/ PlotConfusionMain \/ PlotFile

SpecPlot == InitPlot /\ [][NextPlot]_vars

\* What the directory given with --dir may hold: experiment directories, the
\* Figures directory main makes there, and a regular file.
ExperimentEntries ==
  { [name |-> <<"Experiment">>, dir |-> TRUE], [name |-> <<"Experiment_2">>, dir |-> TRUE],
    [name |-> <<"Figures">>, dir |-> TRUE], [name |-> <<"notes.txt">>, dir |-> FALSE] }

\* dir.iterdir(): entries of different names, in any order.
ExperimentListings ==
  UNION { { l \in [1..k -> ExperimentEntries] :
              \A i, j \in 1..k : i # j => l[i].name # l[j].name } : k \in 0..MaxExperiments }

\* Directories of a policy directory that no sweep made.
ExtraDirs == { {}, {<<"old">>} }

\* Result files of runs that ended early or went on, next to those of a sweep.
TreeFileKinds == {"full", "onerow", "longer"}

\* The plotting scripts on a results tree that was touched after the sweep,
\* and plot_confusion with any of its flags: either the directory given with
\* --dir holds something else than one experiment directory, or the tree
\* below it is not as a sweep leaves it.
InitPlotTree ==
  /\ \E vs \in ViewsTrees, r \in 1..MaxReps, l \in ExperimentListings, x \in ExtraDirs,
        raw \in BOOLEAN, show \in BOOLEAN :
       \E c \in [1..r -> TreeFileKinds] :
         /\ \/ l = NoPlot.listing
            \/ x = {} /\ ~raw /\ ~show /\ c = [i \in 1..r |-> "full"]
         /\ plot = [NoPlot EXCEPT !.views = vs, !.reps = r, !.content = c, !.policies = 1,
                                  !.listing = l, !.extra = x,
                                  !.plot_raw = raw, !.display_only = show]
  /\ script = "sweep_run_experiment"
  /\ INTRINSICS = <<>> /\ GROUND_TRUTH_FILES = <<>> /\ METHODS = <<>> /\ N_VIEWS = <<>>
  /\ parsed_args = NoArgs
  /\ dirs = {} /\ files = {}
  /\ pc = "idle"
  /\ pos = <<1, 1, 1, 1, 1>>
  /\ n = 0 /\ N = 0 /\ seed = 0 /\ fpath = <<>> /\ out = <<>>
  /\ proc = NoProc /\ engines = 0 /\ returncode = 0
  /\ tool = NoTool
  /\ NoSweeps

SpecPlotTree == InitPlotTree /\ [][NextPlot]_vars

(* ------------- run_make_ground_truth, run_precompute_views ------------- *)

\* The entries a bin directory may hold for a script: its executable with and
\* without an extension, a directory of that name, a file with the name further
\* in, and the executable of another script.
BinEntries(s) ==
  { [name |-> <<EXECUTABLE_NAME(s)>>, file |-> TRUE],
    [name |-> <<EXECUTABLE_NAME(s), ".exe">>, file |-> TRUE],
    [name |-> <<EXECUTABLE_NAME(s)>>, file |-> FALSE],
    [name |-> <<"lib", EXECUTABLE_NAME(s), ".so">>, file |-> TRUE],
    [name |-> <<"ManualExperiment">>, file |-> TRUE] }

\* The orders in which iterdir() may list a bin directory of at most MaxEntries
\* entries.
BinListings(s) ==
  UNION { { l \in [1..k -> BinEntries(s)] :
              \A a, b \in 1..k : a # b => l[a].name # l[b].name } : k \in 0..MaxEntries }

\* The bin directory: missing, a regular file, or a directory.
BinDirs(s) ==
  { [exists |-> FALSE, is_dir |-> FALSE, listing |-> <<>>],
    [exists |-> TRUE, is_dir |-> FALSE, listing |-> <<>>] }
  \cup { [exists |-> TRUE, is_dir |-> TRUE, listing |-> l] : l \in BinListings(s) }

\* The module code of a driver script up to its second assertion.
Import ==
  /\ tool.pc = "start"
  /\ tool' = IF ~(tool.bin.exists /\ tool.bin.is_dir)
             THEN [tool EXCEPT !.pc = "failed", !.error = "AssertionError"]
             ELSE IF Locate(tool.script, tool.bin.listing) = None
             THEN [tool EXCEPT !.pc = "failed", !.error = "AssertionError"]
             ELSE [tool EXCEPT !.pc = "imported",
                               !.EXECUTABLE_PATH = Locate(tool.script, tool.bin.listing)]
  /\ UNCHANGED <<sweep_vars, plot_vars, conc_vars>>

IntTxt(i) == IF i < 0 THEN <<"-">> \o IntStr(0 - i) ELSE IntStr(i)

FloatTxt(m, e) == IF m < 0 THEN <<"-">> \o FloatStr(Dec(0 - m, e)) ELSE FloatStr(Dec(m, e))

\* f"--flag {value} "
Flag(fl, value) == <<fl, " ">> \o value \o <<" ">>

get_grid_properties(nx, ny, nz, resolution) ==
  <<" ">> \o Flag("--nx", nx) \o Flag("--ny", ny) \o Flag("--nz", nz)
          \o Flag("--resolution", resolution)

DefaultGrid == get_grid_properties(IntTxt(101), IntTxt(101), IntTxt(101), FloatTxt(2, 2))

get_rotation(rx, ry, rz, degrees) ==
  <<" ">> \o Flag("--rx", rx) \o Flag("--ry", ry) \o <<"--rz", " ">> \o rz
          \o (IF degrees THEN <<" ", "--degrees", " ">> ELSE <<" ">>)

get_translation(x, y, z) ==
  <<" ">> \o Flag("--x", x) \o Flag("--y", y) \o Flag("--z", z)

confirm_generate_data == <<"y", STDIN_NEWLINE, "y", STDIN_NEWLINE>>

\* f" --name {name} --shape sphere --radius {radius} "
SphereShape(name, radius) ==
  <<" ">> \o Flag("--name", <<name>>) \o Flag("--shape", <<"sphere">>) \o Flag("--radius", radius)

\* f" --name {name} --shape box --l {l} --w {w} --h {h} "
BoxShape(name, l, w, h) ==
  <<" ">> \o Flag("--name", <<name>>) \o Flag("--shape", <<"box">>)
          \o Flag("--l", l) \o Flag("--w", w) \o Flag("--h", h)

\* math.pi / 6, math.e / 2.5 and their mean, as Python prints them
PiSixth == <<"0.5235987755982988">>

EFraction == <<"1.087312731383618">>

BoxHeight == <<"0.8054557534909583">>

get_sphere == SphereShape("truth_sphere", PiSixth) \o <<STDIN_NEWLINE>>

get_box ==
  BoxShape("truth_box", PiSixth, EFraction, BoxHeight)
  \o get_rotation(FloatTxt(2381, 2), FloatTxt(1592, 2), IntTxt(0), TRUE)
  \o <<STDIN_NEWLINE>>

get_bin ==
  LET bx == Dec(120, 2)
      by == Dec(86, 2)
      bz == Dec(25, 2)
      wz == IntTxt(1)
      wt == Dec(30, 2)
      half == Dec(5, 1)
      dx == DecMul(half, bx)
      dy == DecMul(half, by)
      up == FloatStr(DecMul(half, Dec(1, 0)))
      zero == IntTxt(0)
  IN  BoxShape("base", FloatStr(bx), FloatStr(by), FloatStr(bz))
        \o get_translation(zero, zero, <<"-">> \o FloatStr(DecMul(half, bz))) \o <<STDIN_NEWLINE>>
      \o BoxShape("wall_nx", FloatStr(wt), FloatStr(by), wz)
        \o get_translation(<<"-">> \o FloatStr(dx), zero, up) \o <<STDIN_NEWLINE>>
      \o BoxShape("wall_px", FloatStr(wt), FloatStr(by), wz)
        \o get_translation(FloatStr(dx), zero, up) \o <<STDIN_NEWLINE>>
      \o BoxShape("wall_ny", FloatStr(bx), FloatStr(wt), wz)
        \o get_translation(zero, <<"-">> \o FloatStr(dy), up) \o <<STDIN_NEWLINE>>
      \o BoxShape("wall_py", FloatStr(bx), FloatStr(wt), wz)
        \o get_translation(zero, FloatStr(dy), up) \o <<STDIN_NEWLINE>>

get_bar ==
  LET rx == FloatTxt(25, 2)
      ry == FloatTxt(20, 2)
      rz == FloatTxt(75, 2)
      cz == FloatTxt(4, 1)
      ct == FloatTxt(1, 1)
      cy == <<"0.6000000000000001">>     \* ry + cz in float64
      rs == FloatStr(DecMul(Dec(5, 1), Dec(20, 2)))
      dy == FloatTxt(25, 2)              \* 0.5*(cz + ct)
      dz0 == FloatTxt(475, 3)            \* 0.5*rz + rs
      dz1 == FloatTxt(9, 1)              \* rs + rz + 0.5*ct
      dz2 == FloatTxt(13, 1)             \* dz1 + cz
      dz3 == FloatTxt(11, 1)             \* rs + rz + 0.5*(cz + ct)
      zero == IntTxt(0)
  IN  SphereShape("sphere", rs) \o get_translation(zero, zero, rs) \o <<STDIN_NEWLINE>>
      \o BoxShape("rod", rx, ry, rz) \o get_translation(zero, zero, dz0) \o <<STDIN_NEWLINE>>
      \o BoxShape("wall_nz", rx, cy, ct) \o get_translation(zero, zero, dz1) \o <<STDIN_NEWLINE>>
      \o BoxShape("wall_pz", rx, cy, ct) \o get_translation(zero, zero, dz2) \o <<STDIN_NEWLINE>>
      \o BoxShape("wall_ny", rx, ct, cz)
        \o get_translation(zero, <<"-">> \o dy, dz3) \o <<STDIN_NEWLINE>>
      \o BoxShape("wall_py", rx, ct, cz) \o get_translation(zero, dy, dz3) \o <<STDIN_NEWLINE>>

\* raise ValueError(...), in place of the text a function returns
ValueError == <<"raise ValueError">>

\* The names get_reconstruction_grid and get_scene of a script accept.
TruthNames(s) ==
  IF s = "run_precompute_views" THEN {"box", "hull", "bunny", "rotor-blade-real"}
  ELSE {"sphere", "box", "bin", "bar"}

\* The --name values tried.
ToolNames == {"sphere", "box", "bin", "bar", "hull", "bunny", "rotor-blade-real", "cube"}

\* The three lines of a reconstruction grid.
GridLines(grid, translation) ==
  grid \o <<STDIN_NEWLINE>>
  \o get_rotation(IntTxt(0), IntTxt(0), IntTxt(0), FALSE) \o <<STDIN_NEWLINE>>
  \o translation \o <<STDIN_NEWLINE>>

\* get_reconstruction_grid of run_make_ground_truth (ValueError when it raises)
get_reconstruction_grid(name) ==
  CASE name \in {"sphere", "box"} ->
         GridLines(DefaultGrid, get_translation(IntTxt(-1), IntTxt(-1), IntTxt(-1)))
    [] name = "bin" ->
         GridLines(DefaultGrid, get_translation(IntTxt(-1), IntTxt(-1), FloatTxt(-5, 1)))
    [] name = "bar" ->
         GridLines(get_grid_properties(IntTxt(121), IntTxt(161), IntTxt(321), FloatTxt(5, 3)),
                   get_translation(FloatTxt(-3, 1), FloatTxt(-4, 1), FloatTxt(-1, 1)))
    [] OTHER -> ValueError

\* The shapes of a scene of run_make_ground_truth.
SceneShapes(name) ==
  CASE name = "sphere" -> get_sphere
    [] name = "box"    -> get_box
    [] name = "bin"    -> get_bin
    [] name = "bar"    -> get_bar
    [] OTHER           -> ValueError

\* get_scene without the newline that ends the scene.
get_scene_Unterminated(name) == SceneShapes(name)

\* get_scene of run_make_ground_truth
get_scene(name) ==
  IF SceneShapes(name) = ValueError THEN ValueError
  ELSE SceneShapes(name) \o <<STDIN_NEWLINE>>

\* get_reconstruction_grid of run_precompute_views
precompute_get_reconstruction_grid(name) ==
  CASE name \in {"box", "hull", "bunny"} ->
         GridLines(DefaultGrid, get_translation(IntTxt(-1), IntTxt(-1), IntTxt(-1)))
    [] name = "rotor-blade-real" ->
         GridLines(get_grid_properties(IntTxt(201), IntTxt(501), IntTxt(101), FloatTxt(5, 4)),
                   get_translation(FloatTxt(-5, 2), FloatTxt(-125, 3), FloatTxt(-25, 3)))
    [] OTHER -> ValueError

\* get_scene of run_precompute_views
precompute_get_scene(name) ==
  LET moved(file) == <<" ">> \o Flag("--file", <<file>>)
                     \o get_translation(FloatTxt(-2, 1), IntTxt(0), FloatTxt(-4, 1))
                     \o <<STDIN_NEWLINE, STDIN_NEWLINE>>
  IN  CASE name = "box"   -> moved("box.stl")
        [] name = "hull"  -> moved("bunny_hull.stl")
        [] name = "bunny" -> moved("bunny.stl")
        [] name = "rotor-blade-real" ->
             <<" ">> \o Flag("--file", <<"rotor_blade.stl">>) \o Flag("--scale", FloatTxt(2, 2))
             \o <<STDIN_NEWLINE, STDIN_NEWLINE>>
        [] OTHER -> ValueError

\* RADIUS, MIN_SIMILARITY, N_VIEWS, N_STORE and ALPHA, one on a line
PrecomputeSettings ==
  FloatTxt(25, 1) \o <<STDIN_NEWLINE>> \o FloatTxt(3, 1) \o <<STDIN_NEWLINE>>
  \o IntTxt(100) \o <<STDIN_NEWLINE>> \o IntTxt(10) \o <<STDIN_NEWLINE>>
  \o FloatTxt(5, 1) \o <<STDIN_NEWLINE>>

\* parsed_args.dir, by default
ToolDir(s) ==
  IF s = "run_precompute_views"
  THEN PROJECT_ROOT_PATH \o << <<"share">>, <<"Experiments">>, <<"Precomputed">> >>
  ELSE PROJECT_ROOT_PATH \o << <<"share">>, <<"GroundTruth">> >>

\* The text main builds for the tool, ValueError when building it raises.
ToolStdin(s, fp, name) ==
  LET grid  == IF s = "run_precompute_views" THEN precompute_get_reconstruction_grid(name)
               ELSE get_reconstruction_grid(name)
      scene == IF s = "run_precompute_views" THEN precompute_get_scene(name)
               ELSE get_scene(name)
  IN  IF grid = ValueError \/ scene = ValueError THEN ValueError
      ELSE IF s = "run_precompute_views"
      THEN PathStr(fp) \o <<STDIN_NEWLINE>> \o grid \o PrecomputeSettings \o scene
           \o <<STDIN_NEWLINE>>
      ELSE PathStr(fp) \o <<STDIN_NEWLINE>> \o grid \o scene \o confirm_generate_data

\* main of run_make_ground_truth and of run_precompute_views: the directory is
\* made, the tool is started, and only then is the text built and handed over.
ToolMain ==
  /\ tool.pc = "imported" /\ tool.script \in ToolScripts
  /\ pc = "idle"
  /\ \E name \in ToolNames :
       LET dir == ToolDir(tool.script)
           fp == dir \o << <<name>> >>
           text == ToolStdin(tool.script, fp, name)
           shown == IF tool.script = "run_make_ground_truth" THEN <<PathStr(fp)>> ELSE <<>>
       IN  /\ dirs' = dirs \cup Ancestors(dir)
           /\ tool' = IF text = ValueError
                      THEN [tool EXCEPT !.pc = "failed", !.error = "ValueError", !.name = name,
                                        !.made = ~Exists(dir), !.launched = @ + 1,
                                        !.out = shown]
                      ELSE [tool EXCEPT !.pc = "done", !.name = name,
                                        !.made = ~Exists(dir), !.launched = @ + 1,
                                        !.stdin = text, !.out = shown \o <<text>>]
  /\ UNCHANGED <<tables, parsed_args, files, pc, pos, n, N, seed, fpath, out, proc, engines,
                 returncode, plot_vars, conc_vars>>

\* A driver script about to start: any bin directory; for a sweep script the
\* tables its module code builds once the executable is found, for a tool
\* script its output directory there or not.
InitTool ==
  /\ \E s \in DriverScripts : \E b \in BinDirs(s) :
       tool = [NoTool EXCEPT !.script = s, !.bin = b]
  /\ script = IF tool.script \in SweepScripts THEN tool.script ELSE "sweep_run_experiment"
  /\ IF tool.script \in SweepScripts
     THEN /\ INTRINSICS = SubSeq(ScriptIntrinsics(script), 1, 1)
          /\ \E dir \in GroundTruthDirs : \E listing \in Listings(dir) :
               /\ GROUND_TRUTH_FILES = SceneFiles(script, listing)
               /\ script = "experiment_3" => Len(GROUND_TRUTH_FILES) = 2
          /\ METHODS = << MethodRow(ScriptMethods(script)[1], 1) >>
          /\ N_VIEWS = SubSeq(ScriptViews(script), 1, 1)
          /\ TotalOf(INTRINSICS, GROUND_TRUTH_FILES, METHODS, N_VIEWS) \in 1..MaxConfigs
          /\ dirs = Ancestors(GROUND_TRUTH_PATH)
     ELSE /\ INTRINSICS = <<>> /\ GROUND_TRUTH_FILES = <<>> /\ METHODS = <<>> /\ N_VIEWS = <<>>
          /\ dirs \in { Ancestors(GROUND_TRUTH_PATH),
                        Ancestors(GROUND_TRUTH_PATH) \cup Ancestors(ToolDir(tool.script)) }
  /\ files = { GROUND_TRUTH_FILES[k] : k \in DOMAIN GROUND_TRUTH_FILES }
  /\ parsed_args = NoArgs
  /\ pc = "idle"
  /\ pos = <<1, 1, 1, 1, 1>>
  /\ n = 0 /\ N = 0 /\ seed = 0 /\ fpath = <<>> /\ out = <<>>
  /\ proc = NoProc /\ engines = 0 /\ returncode = 0
  /\ PlotIdle
  /\ NoSweeps

NextTool == Import \/ ToolMain \/ Start \/ Iterate \/ EngineExit \/ Communicate \/ EndOfProcess

SpecTool == InitTool /\ [][NextTool]_vars

(* ------------------- sweeps run as separate processes ------------------ *)

\* Two invocations of a sweep script.
Procs == {1, 2}

\* A sweep process at the head of its loops: main's locals, whether its engine
\* subprocess runs, and the indices n and output paths with which it has launched
\* the engine.
Started(a) ==
  [pc |-> IF NoIteration THEN "done" ELSE "loop", start_at |-> a.start_at,
   no_override |-> a.no_override, n |-> 0, pos |-> <<1, 1, 1, 1, 1>>, fpath |-> <<>>,
   running |-> FALSE, launched |-> {}]

\* continue, or the end of the loop body, of a process
Advanced(w) ==
  IF LastIteration(w.pos) THEN [w EXCEPT !.pc = "done"]
  ELSE [w EXCEPT !.pc = "loop", !.pos = NextIteration(w.pos)]

\* One iteration of the loop body of process p, up to `continue` or to the launch
\* of the engine.
ConcIterate(p) ==
  /\ sweeps[p].pc = "loop"
  /\ LET w == [sweeps[p] EXCEPT !.n = @ + 1]
     IN  IF BeforeStart(w.n, w.start_at)
         THEN /\ sweeps' = [sweeps EXCEPT ![p] = Advanced(w)]
              /\ UNCHANGED dirs
         ELSE /\ dirs' = dirs \cup Ancestors(ConfigDir(w.pos))
              /\ sweeps' = [sweeps EXCEPT ![p] =
                   IF SkipExisting(ResultFile(w.pos), w.no_override)
                   THEN Advanced([w EXCEPT !.fpath = ResultFile(w.pos)])
                   ELSE [w EXCEPT !.fpath = ResultFile(w.pos), !.pc = "communicate",
                                  !.running = TRUE,
                                  !.launched = @ \cup {[n |-> w.n, fpath |-> ResultFile(w.pos)]}]]
  /\ UNCHANGED <<tables, parsed_args, files, pc, pos, n, N, seed, fpath, out, proc, engines,
                 returncode, plot_vars, tool_vars>>

\* The engine of process p ends, having written its results file or not.
ConcEngineExit(p) ==
  /\ sweeps[p].running
  /\ \E wrote \in BOOLEAN :
       files' = IF wrote THEN files \cup {sweeps[p].fpath} ELSE files
  /\ sweeps' = [sweeps EXCEPT ![p].running = FALSE]
  /\ UNCHANGED <<tables, parsed_args, dirs, pc, pos, n, N, seed, fpath, out, proc, engines,
                 returncode, plot_vars, tool_vars>>

\* proc.communicate of process p returns.
ConcCommunicate(p) ==
  /\ sweeps[p].pc = "communicate" /\ ~sweeps[p].running
  /\ sweeps' = [sweeps EXCEPT ![p] = Advanced(@)]
  /\ UNCHANGED <<sweep_vars, plot_vars, tool_vars>>

\* Two sweeps of one script started on one file system, each with its own
\* command line.
InitConc ==
  /\ script \in SweepScripts
  /\ INTRINSICS = SubSeq(ScriptIntrinsics(script), 1, 1)
  /\ \E dir \in GroundTruthDirs : \E listing \in Listings(dir) :
       /\ GROUND_TRUTH_FILES = SceneFiles(script, listing)
       /\ script = "experiment_3" => Len(GROUND_TRUTH_FILES) = 2
  /\ \E rr \in 1..MaxReruns :
       METHODS = << MethodRow(ScriptMethods(script)[Len(ScriptMethods(script))], rr) >>
  /\ N_VIEWS = SubSeq(ScriptViews(script), 1, 1)
  /\ TotalOf(INTRINSICS, GROUND_TRUTH_FILES, METHODS, N_VIEWS) \in 1..MaxConfigs
  /\ \E a \in [Procs -> [start_at : 0..TotalOf(INTRINSICS, GROUND_TRUTH_FILES, METHODS, N_VIEWS),
                        no_override : BOOLEAN]] :
       sweeps = [p \in Procs |-> Started(a[p])]
  /\ parsed_args = NoArgs
  /\ dirs = Ancestors(GROUND_TRUTH_PATH)
  /\ files = { GROUND_TRUTH_FILES[k] : k \in DOMAIN GROUND_TRUTH_FILES }
  /\ pc = "idle"
  /\ pos = <<1, 1, 1, 1, 1>>
  /\ n = 0 /\ N = 0 /\ seed = 0 /\ fpath = <<>> /\ out = <<>>
  /\ proc = NoProc /\ engines = 0 /\ returncode = 0
  /\ PlotIdle
  /\ tool = Imported(script)

NextConc == \E p \in Procs : ConcIterate(p) \/ ConcEngineExit(p) \/ ConcCommunicate(p)

SpecConc == InitConc /\ [][NextConc]_vars

(* ------------------------------- claims ------------------------------- *)

\* A step in which no KeyboardInterrupt is raised.
Uninterrupted == out' # <<InterruptLine>>

\* C1: the total N, printed before the first configuration is processed, is
\* |INTRINSICS| x |GROUND_TRUTH_FILES| x |N_VIEWS| x (sum of the repetition counts),
\* and when the loops end the counter n equals N, the number of configurations
\* of the product.
C1_TotalIsLoopCount ==
  /\ pc # "idle" =>
       N = Len(INTRINSICS) * Len(GROUND_TRUTH_FILES) * Len(N_VIEWS) * SumReps(METHODS)
  /\ (pc # "idle" /\ n = 0) => out = << GeneratingLine(N, parsed_args.start_at) >>
  /\ pc = "done" => (n = N /\ n = Cardinality(Positions))

C1_Witness ==
  pc = "done" /\ n = 4 /\ Len(METHODS) = 2 /\ SumReps(METHODS) = 2

\* C2: with start-at <= 1 and skip-if-exists off, every loop iteration processes
\* the configuration whose place in the nested order (intrinsics outermost, then
\* scenes, policies, view counts, repetitions innermost) is the next index: the
\* index printed and the configuration handed to the engine are a function of the
\* tables and the index alone, and the loops end at index = size of the product.
C2_FullSweepInOrder ==
  [][ /\ (/\ pc = "loop" /\ parsed_args.start_at <= 1 /\ ~parsed_args.no_override
          /\ Uninterrupted) =>
           /\ n' = n + 1
           /\ n' = Rank(pos)
           /\ pc' = "communicate"
           /\ out' = << ProgressLine(n', N, RelPath(pos)) >>
           /\ EngineOutputPath(proc') = ResultFile(pos)
           /\ proc' = FullSweepStdin(n')
      /\ (pc # "done" /\ pc' = "done") => n' = Cardinality(Positions)
    ]_vars

C2_Witness ==
  /\ pc = "communicate" /\ parsed_args.start_at <= 1 /\ ~parsed_args.no_override
  /\ n = 4 /\ pos = <<2, 1, 1, 2, 1>>

\* C3: with start-at = k an iteration of index below k changes nothing but the
\* counter (nothing printed, no directory made, no engine launched), and an
\* iteration of index >= k has the index, seed, output path and engine input of
\* the full sweep at that index.
C3_StartAtSkips ==
  [][ (pc = "loop" /\ Uninterrupted) =>
        IF n + 1 < parsed_args.start_at
        THEN /\ n' = n + 1
             /\ out' = <<>> /\ dirs' = dirs /\ files' = files
             /\ proc' = NoProc /\ pc' \in {"loop", "done"}
             /\ seed' = seed /\ fpath' = fpath
        ELSE /\ n' = Rank(pos)
             /\ seed' = RepAt(pos)
             /\ fpath' = ResultFile(pos)
             /\ out'[1] = ProgressLine(Rank(pos), N, RelPath(pos))
             /\ pc' = "communicate" => proc' = FullSweepStdin(n')
    ]_vars

C3_Witness ==
  /\ pc = "communicate" /\ parsed_args.start_at = 3 /\ n = 3
  /\ ConfigDir(PositionAt(1)) \notin dirs /\ ConfigDir(PositionAt(2)) \notin dirs

\* C4: with --no-override, an iteration whose result file already exists launches
\* no engine and leaves the file system as it is; so while --no-override is set no
\* engine runs for a configuration whose result file exists.
C4_SkipExistingNoOp ==
  [][ /\ (/\ pc = "loop" /\ parsed_args.no_override /\ Uninterrupted
          /\ n + 1 >= parsed_args.start_at /\ ResultFile(pos) \in files) =>
           /\ pc' # "communicate" /\ proc' = NoProc
           /\ dirs' = dirs /\ files' = files
      /\ (pc = "loop" /\ pc' = "communicate" /\ parsed_args'.no_override) =>
           fpath' \notin files'
    ]_vars

C4_Witness ==
  /\ pc = "loop" /\ parsed_args.no_override /\ n + 1 >= parsed_args.start_at
  /\ ResultFile(pos) \in files
  /\ \A q \in Positions : ResultFile(q) \in files

\* C5: an iteration of index >= start-at launches the engine for its
\* configuration, unless --no-override is set and the result file exists, and then
\* the skip is printed; after the launch the loop goes on to the next index, so
\* the configuration is invoked once.
C5_NoSilentSkip ==
  [][ /\ (pc = "loop" /\ n + 1 >= parsed_args.start_at /\ Uninterrupted) =>
           IF parsed_args.no_override /\ ResultFile(pos) \in files
           THEN /\ pc' # "communicate" /\ proc' = NoProc
                /\ out' = << ProgressLine(n + 1, N, RelPath(pos)), SkipLine >>
           ELSE /\ pc' = "communicate"
                /\ proc' # NoProc /\ EngineOutputPath(proc') = ResultFile(pos)
      /\ (pc \in {"communicate", "input"} /\ Uninterrupted) =>
           /\ pc' \in {"communicate", "input", "loop", "done"} /\ n' = n
           /\ pc' = "communicate" => (pc = "communicate" /\ proc' = proc /\ pos' = pos)
           /\ pc' = "loop" => Rank(pos') = n + 1
    ]_vars

C5_Witness ==
  pc = "communicate" /\ ~parsed_args.no_override /\ fpath \in files

\* The fields of the policy line of an engine input.
PolicyFields(t) == Fields(Lines(t)[6])

\* C6: the output path is the results base directory followed by the intrinsic
\* name, the scene name without .h5, the policy name, the view count and the
\* repetition index, in that order, and then results.h5; two different
\* configurations of a sweep never have the same output path.
C6_OutputPathOfConfiguration ==
  pc = "communicate" =>
       LET p == EngineOutputPath(proc)
           b == Len(ResultsBase(script))
           sceneName == SceneAt(pos)[Len(SceneAt(pos))]
       IN  /\ \A q \in Positions : q # pos => ResultFile(q) # fpath
           /\ p = fpath
           /\ Len(p) = b + 6
           /\ SubSeq(p, 1, b) = ResultsBase(script)
           /\ p[b + 1] = IntrAt(pos).name
           /\ p[b + 2] \o <<HDF5_EXTENSION>> = sceneName
           /\ p[b + 3] = <<PolicyAt(pos).name>>
           /\ IsIntText(p[b + 4]) /\ ParseInt(p[b + 4]) = ViewsAt(pos)
           /\ IsIntText(p[b + 5]) /\ ParseInt(p[b + 5]) = RepAt(pos)
           /\ p[b + 6] = <<"results", ".h5">>

C6_Witness ==
  pc = "communicate" /\ pos[2] = 2 /\ pos[5] = 2

\* C7: random-seed mode being off, the seed of a configuration, as a local of
\* main and as the value of --seed in the engine input, is its repetition index,
\* also when the configuration is run again.
C7_SeedIsRepetition ==
  (~RANDOM_SEED /\ pc = "communicate" /\ engines = 1) =>
     /\ seed = RepAt(pos)
     /\ IsIntText(FlagValue(PolicyFields(proc), "--seed"))
     /\ ParseInt(FlagValue(PolicyFields(proc), "--seed")) = RepAt(pos)

C7_Witness ==
  pc = "communicate" /\ RepAt(pos) = 2 /\ seed = 2 /\ fpath \in files

\* n-repeat == requested_views / 5, read from the fields fs of a policy line
RepeatIsFifth(fs, requested) ==
  LET r == ParseFloat(FlagValue(fs, "--n-repeat"))
  IN  HasFlag(fs, "--n-repeat") /\ r.m * 5 = requested * Pow10(r.e)

\* C8 as claimed: Axis_Random has n-repeat == requested_views / 5 and no
\* --n-views flag at all; every other policy has --n-views <requested_views> and
\* no --n-repeat.
C8_NoViewsFlagForAxisRandom ==
  pc = "communicate" =>
     IF PolicyAt(pos).name = "Axis_Random"
     THEN /\ RepeatIsFifth(PolicyFields(proc), ViewsAt(pos))
          /\ ~HasFlag(PolicyFields(proc), "--n-views")
     ELSE /\ ParseInt(FlagValue(PolicyFields(proc), "--n-views")) = ViewsAt(pos)
          /\ ~HasFlag(PolicyFields(proc), "--n-repeat")

\* C8 amended: Axis_Random has --n-views 5, the fixed base and not the requested
\* count, followed by --n-repeat with n-repeat == requested_views / 5; every
\* other policy has --n-views <requested_views> and no --n-repeat.
C8_AxisRandomBaseAndRepeat ==
  pc = "communicate" =>
     LET fs == PolicyFields(proc)
     IN  IF PolicyAt(pos).name = "Axis_Random"
         THEN /\ RepeatIsFifth(fs, ViewsAt(pos))
              /\ FlagValue(fs, "--n-views") = <<"5">>
              /\ \E k \in DOMAIN fs : fs[k] = <<"--n-views">> /\ fs[k + 2] = <<"--n-repeat">>
         ELSE /\ IsIntText(FlagValue(fs, "--n-views"))
              /\ ParseInt(FlagValue(fs, "--n-views")) = ViewsAt(pos)
              /\ ~HasFlag(fs, "--n-repeat")

C8_Witness ==
  pc = "communicate" /\ PolicyAt(pos).name = "Axis_Random" /\ ViewsAt(pos) = 20

\* C9: the engine input is ten lines and nothing else: the output file path, the
\* image-saving toggle ('y' exactly when --save-images), the scene file path, the
\* rejection rate, the intrinsic arguments, the policy line (policy arguments,
\* view-count flags, --seed <seed>), the channels probability, TSDF, binary, and
\* an empty line.
C9_StdinLineOrder ==
  pc = "communicate" =>
     LET ls   == Lines(proc)
         fs   == Fields(ls[6])
         k    == Len(Fields(PolicyAt(pos).args))
         rest == SubSeq(fs, k + 1, Len(fs))
     IN  /\ Len(ls) = 10
         /\ proc[Len(proc)] = STDIN_NEWLINE
         /\ ParsePath(ls[1]) = fpath
         /\ ls[2] \in { <<"y">>, <<"don't save images">> }
         /\ ls[2] = <<"y">> <=> parsed_args.save_images
         /\ ParsePath(ls[3]) = SceneAt(pos)
         /\ ls[4] = <<"0", ".", "0">>
         /\ ls[5] = IntrAt(pos).args
         /\ SubSeq(fs, 1, k) = Fields(PolicyAt(pos).args)
         /\ Len(rest) \in {4, 6}
         /\ rest[1] = <<"--n-views">>
         /\ Len(rest) = 6 => rest[3] = <<"--n-repeat">>
         /\ rest[Len(rest) - 1] = <<"--seed">>
         /\ IsIntText(rest[Len(rest)]) /\ ParseInt(rest[Len(rest)]) = seed
         /\ FlagValue(Fields(ls[7]), "--name") = <<"probability">>
         /\ FlagValue(Fields(ls[8]), "--name") = <<"TSDF">>
         /\ FlagValue(Fields(ls[9]), "--name") = <<"binary">>
         /\ ls[10] = <<>>

C9_Witness ==
  /\ pc = "communicate" /\ parsed_args.save_images
  /\ script = "experiment_3" /\ IntrAt(pos).idx = 2
  /\ Len(Lines(proc)) = 10 /\ Lines(proc)[2] = <<"y">>

\* -d
DecNeg(d) == Dec(0 - d.m, d.e)

\* The channels call_process asks for: name, type and bounds (none for binary).
ChannelsAsked(s, intr) ==
  LET d1 == IF s = "experiment_3" THEN DIST_AND_NOISE[intr.idx + 1].d1 ELSE DIST
      d2 == IF s = "experiment_3" THEN DIST_AND_NOISE[intr.idx + 1].d2 ELSE DIST
  IN  << [name |-> <<"probability">>, type |-> <<"Probability">>,
          bounds |-> <<DecNorm(DecNeg(d1)), DecNorm(d2)>>],
         [name |-> <<"TSDF">>, type |-> <<"TSDF">>,
          bounds |-> <<DecNorm(DecNeg(d1)), DecNorm(d1)>>],
         [name |-> <<"binary">>, type |-> <<"binary">>, bounds |-> <<>>] >>

\* The channel a channel line describes.
DecodeChannel(line) ==
  LET fs == Fields(line)
  IN  [name |-> FlagValue(fs, "--name"), type |-> FlagValue(fs, "--type"),
       bounds |-> IF HasFlag(fs, "--d-min")
                  THEN <<ParseFloat(FlagValue(fs, "--d-min")), ParseFloat(FlagValue(fs, "--d-max"))>>
                  ELSE <<>>]

\* The view budget a policy line describes: --n-views, times --n-repeat when given.
DecodeViews(fs) ==
  IF HasFlag(fs, "--n-repeat")
  THEN LET r == ParseFloat(FlagValue(fs, "--n-repeat"))
       IN  IF (ParseInt(FlagValue(fs, "--n-views")) * r.m) % Pow10(r.e) = 0
           THEN (ParseInt(FlagValue(fs, "--n-views")) * r.m) \div Pow10(r.e)
           ELSE 0 - 1
  ELSE ParseInt(FlagValue(fs, "--n-views"))

\* The fields of an engine input, read back line by line.
Decode(t) ==
  LET ls == Lines(t)
      fs == Fields(ls[6])
  IN  [path   |-> ParsePath(ls[1]),
       scene  |-> ParsePath(ls[3]),
       seed   |-> ParseInt(FlagValue(fs, "--seed")),
       radius |-> ParseFloat(IF HasFlag(fs, "--r") THEN FlagValue(fs, "--r")
                             ELSE FlagValue(fs, "--radius")),
       views  |-> DecodeViews(fs),
       channels |-> << DecodeChannel(ls[7]), DecodeChannel(ls[8]), DecodeChannel(ls[9]) >>]

\* The engine input of the configuration at position q in the current run.
StdinAt(q) ==
  EncodeStdin(script, ResultFile(q), SceneAt(q), IntrAt(q), PolicyAt(q).name,
              PolicyAt(q).args, ViewsAt(q), RepAt(q), parsed_args.save_images)

\* C10: reading an engine input back gives the output path, scene path, seed,
\* radius, requested view count (for Axis_Random the base --n-views times
\* --n-repeat) and the name, type and bounds of each channel that were encoded;
\* two different configurations never have the same engine input.
C10_RoundTrip ==
  pc = "communicate" =>
    /\ Decode(proc) = [path   |-> fpath,
                       scene  |-> SceneAt(pos),
                       seed   |-> seed,
                       radius |-> VIEW_RADIUS,
                       views  |-> ViewsAt(pos),
                       channels |-> ChannelsAsked(script, IntrAt(pos))]
    /\ \A q \in Positions : q # pos => StdinAt(q) # proc

C10_Witness ==
  /\ pc = "communicate" /\ PolicyAt(pos).name = "Axis_Random" /\ ViewsAt(pos) = 15
  /\ FlagValue(PolicyFields(proc), "--n-views") = <<"5">>
  /\ Decode(proc).views = 15
  /\ Decode(proc).channels[1].bounds = <<Dec(0 - 5, 2), Dec(5, 2)>>

\* C17: engine invocations of a sweep are sequential and blocking: at most one
\* engine subprocess is running at any time, a subprocess runs only while the
\* script waits in proc.communicate, and whenever the script is at the top of an
\* iteration (about to start an invocation) no subprocess is running and the
\* previous one's input and output have been dropped.
C17_OneEngineAtATime ==
  /\ engines <= 1
  /\ engines = 1 => (pc = "communicate" /\ proc # NoProc)
  /\ pc = "loop" => (engines = 0 /\ proc = NoProc)

C17_Witness ==
  /\ pc = "communicate" /\ engines = 1 /\ n = 2 /\ parsed_args.start_at <= 1
  /\ ~parsed_args.no_override /\ ResultFile(PositionAt(1)) \in files

C19_NoStatusCheckNoRetry ==
  [][ /\ (/\ Uninterrupted
          /\ \/ pc = "communicate" /\ pc' # "communicate" /\ ~parsed_args.pause
             \/ pc = "input") =>
           /\ n' = n /\ dirs' = dirs /\ files' = files /\ engines' = 0
           /\ IF LastIteration(pos) THEN pc' = "done"
              ELSE pc' = "loop" /\ Rank(pos') = Rank(pos) + 1
      /\ (pc = "communicate" /\ pc' # "communicate" /\ parsed_args.pause /\ Uninterrupted) =>
           pc' = "input" /\ pos' = pos /\ n' = n
      /\ engines' > engines =>
           /\ n' = n + 1 /\ Rank(pos') = n'
           /\ EngineOutputPath(proc') = ResultFile(PositionAt(n'))
    ]_vars

C19_Witness ==
  /\ pc = "communicate" /\ engines = 0 /\ returncode = 1 /\ fpath \notin files
  /\ n = 2 /\ parsed_args.start_at <= 1 /\ ResultFile(PositionAt(1)) \notin files

\* C20: a KeyboardInterrupt can be raised at every point of a sweep (in the loop,
\* while waiting for the engine, at the pause prompt); it ends the run at once:
\* the message is printed and nothing else (no stack trace), no configuration is
\* processed and no engine is launched by that step, no engine is left running,
\* and the directories and files that exist stay exactly as they are.
C20_InterruptCaughtOnce ==
  [][ /\ pc \in {"loop", "communicate", "input"} => ENABLED Interrupt
      /\ (pc \in {"loop", "communicate", "input"} /\ pc' = "idle") =>
           /\ out' = <<InterruptLine>>
           /\ dirs' = dirs /\ files' = files
           /\ engines' = 0 /\ proc' = NoProc /\ n' = 0
    ]_vars

C20_Witness ==
  /\ pc = "idle" /\ out = <<InterruptLine>>
  /\ \E q \in Positions : ResultFile(q) \in files
  /\ \E q \in Positions : ConfigDir(q) \in dirs /\ ResultFile(q) \notin files

(* ------------------------ claims on the plots -------------------------- *)

\* The rows of confusion counts held by the result files of the tree.
TreeRows ==
  UNION { { DataRow(plot.content[i], group, k) :
              group \in DOMAIN ResultFiles[plot.content[i]].base, k \in 1..MaxViews } :
          i \in { j \in DOMAIN plot.content : ResultFiles[plot.content[j]].metric } }

\* The result file of repetition i lacks the Metric group or a confusion group.
Unreadable(i) ==
  \/ ~ResultFiles[plot.content[i]].metric
  \/ \E g \in 1..n_group : confusion_groups[g] \notin DOMAIN ResultFiles[plot.content[i]].base

\* v is the finite value a / b.
Is(v, a, b) == IsNum(v) /\ b # 0 /\ v.n * b = a * v.d

RatioKeys ==
  {"accuracy", "precision", "sensitivity", "specificity", "balanced-accuracy", "fall-out",
   "miss-rate"}

\* The denominators of the metric of a key are not zero on a row.
Defined(key, row) ==
  CASE key = "accuracy"                      -> row[TP] + row[TN] + row[FP] + row[FN] # 0
    [] key = "precision"                     -> row[TP] + row[FP] # 0
    [] key \in {"sensitivity", "miss-rate"}  -> row[TP] + row[FN] # 0
    [] key \in {"specificity", "fall-out"}   -> row[TN] + row[FP] # 0
    [] key = "balanced-accuracy"             -> row[TP] + row[FN] # 0 /\ row[TN] + row[FP] # 0
    [] OTHER                                 -> TRUE

\* The row of the worked example.
ExampleRow == Counts(80, 10, 5, 5)

\* C11: on every row [TP, TN, FP, FN] whose denominators are not zero the metric
\* functions return accuracy = (TP+TN)/(TP+TN+FP+FN), precision = TP/(TP+FP),
\* sensitivity = TP/(TP+FN), specificity = TN/(TN+FP), balanced accuracy =
\* (sensitivity + specificity)/2, fall-out = 1 - specificity and miss-rate =
\* 1 - sensitivity; on (80, 10, 5, 5) they return 9/10, 80/85, 80/85, 10/15, and
\* 5/15 for fall-out and 5/85 for miss-rate.
C11_MetricFormulas ==
  /\ \A row \in TreeRows \cup {ExampleRow} :
       LET tp == row[TP]  tn == row[TN]  fp == row[FP]  fn == row[FN]
           sens == arr_sensitivity(row)
           spec == arr_specificity(row)
       IN  /\ Defined("accuracy", row) => Is(arr_accuracy(row), tp + tn, tp + tn + fp + fn)
           /\ Defined("precision", row) => Is(arr_precision(row), tp, tp + fp)
           /\ Defined("sensitivity", row) =>
                /\ Is(sens, tp, tp + fn)
                /\ Add(arr_miss_rate(row), sens) = Num(1, 1)
           /\ Defined("specificity", row) =>
                /\ Is(spec, tn, tn + fp)
                /\ Add(arr_fall_out(row), spec) = Num(1, 1)
           /\ Defined("balanced-accuracy", row) =>
                Add(arr_balanced_accuracy(row), arr_balanced_accuracy(row)) = Add(sens, spec)
  /\ Is(arr_accuracy(ExampleRow), 9, 10)
  /\ Is(arr_precision(ExampleRow), 80, 85)
  /\ Is(arr_sensitivity(ExampleRow), 80, 85)
  /\ Is(arr_specificity(ExampleRow), 10, 15)
  /\ Is(arr_fall_out(ExampleRow), 5, 15)
  /\ Is(arr_miss_rate(ExampleRow), 5, 85)
  /\ Is(accuracy(80, 10, 5, 5), 9, 10) /\ Is(precision(80, 5), 80, 85)

C11_Witness ==
  /\ plot.pc = "done" /\ plot.key = "fall-out" /\ plot.reps = 1 /\ plot.content = <<"full">>
  /\ \E f \in plot.saved :
       /\ f.source = 3
       /\ \E j \in DOMAIN f.lines : f.lines[j].ydata[2] = Num(1, 3)

\* C12 as claimed: when the denominator of a metric is zero its computation is
\* an arithmetic fault, not a value: a run that computes a metric on a row with
\* a zero denominator ends with that error and saves nothing.
C12_ZeroDenominatorFaults ==
     (/\ plot.pc \in {"done", "failed"} /\ plot.tool = "plot_experiment_result_confusion"
      /\ plot.key \in RatioKeys /\ \A i \in DOMAIN plot.content : ~Unreadable(i)
      /\ \E i \in DOMAIN plot.content : \E g \in 1..n_group : \E v \in plot.views :
           \E k \in 1..v : ~Defined(plot.key, DataRow(plot.content[i], confusion_groups[g], k))) =>
       (plot.pc = "failed" /\ plot.error = "ZeroDivisionError" /\ plot.saved = {})

\* C12 amended: a zero denominator is not guarded against, and the division, done
\* on numpy values, gives nan (every zero denominator comes with a zero
\* numerator) with a warning and no error: the metric is nan, the script goes on
\* and the figure is saved with the nan in it.
C12_ZeroDenominatorGivesNaN ==
  /\ \A row \in TreeRows : \A key \in RatioKeys :
       ~Defined(key, row) => Metric(key, row) = NaN
  /\ plot.error # "ZeroDivisionError"
  /\ (plot.pc = "done" /\ plot.tool = "plot_experiment_result_confusion"
        /\ plot.reps = 1 /\ plot.key \in RatioKeys) =>
       \A f \in plot.saved : f.source = 3 =>
         \A j \in DOMAIN f.lines : \A x \in 2..Len(f.lines[j].ydata) :
           LET row == DataRow(plot.content[1], confusion_groups[3], x - 1)
           IN  ~Defined(plot.key, row) => f.lines[j].ydata[x] = NaN

C12_Witness ==
  /\ plot.pc = "done" /\ plot.key = "precision" /\ plot.content = <<"empty">>
  /\ \E f \in plot.saved : \E j \in DOMAIN f.lines : f.lines[j].ydata[2] = NaN

\* C13: when the --plot value is no key of PLOT_OPTIONS main fails its assertion
\* before anything else: no directory has been listed, no result file opened, no
\* figure created and no file written; a run that got further has a key of
\* PLOT_OPTIONS.
C13_AssertBeforeAnyWork ==
  plot.tool = "plot_experiment_result_confusion" =>
    /\ plot.key \notin PLOT_OPTIONS =>
         /\ plot.pc = "failed" /\ plot.error = "AssertionError"
         /\ plot.listed = 0 /\ plot.opened = 0 /\ plot.created = 0 /\ plot.saved = {}
    /\ plot.error = "AssertionError" => plot.key \notin PLOT_OPTIONS

C13_Witness ==
  /\ plot.pc = "failed" /\ plot.error = "AssertionError" /\ plot.key = "f1-score"
  /\ plot.content = <<"full", "other">>

\* C14: a result file without the Metric group, or without a confusion group
\* that is read, ends the script with a KeyError: the run fails at the first such
\* file, never reaches its end, and saves no figure for a directory that holds
\* such a file; every saved figure is built from groups that exist.
C14_MissingGroupIsLookupError ==
  /\ (plot.tool = "plot_experiment_result_confusion" /\ plot.key \in PLOT_OPTIONS
        /\ \E i \in DOMAIN plot.content : Unreadable(i)) =>
       /\ plot.pc # "done" /\ plot.saved = {}
       /\ plot.pc = "failed" =>
            /\ plot.error = "KeyError"
            /\ Unreadable(plot.opened) /\ \A i \in 1..(plot.opened - 1) : ~Unreadable(i)
  /\ plot.tool = "plot_confusion" =>
       /\ \A f \in plot.saved : HasGroup(plot.content[f.dir[2]], "OccupancyConfusion")
       /\ plot.pc = "done" =>
            \A i \in DOMAIN plot.content : HasGroup(plot.content[i], "OccupancyConfusion")
       /\ plot.pc = "failed" => plot.error = "KeyError"
  /\ plot.error = "KeyError" =>
       \E i \in DOMAIN plot.content :
         \/ ~ResultFiles[plot.content[i]].metric
         \/ \E group \in {"OccupancyConfusion"} \cup {confusion_groups[g] : g \in 1..n_group} :
              ~HasGroup(plot.content[i], group)

C14_Witness ==
  /\ plot.pc = "failed" /\ plot.error = "KeyError"
  /\ plot.tool = "plot_experiment_result_confusion"
  /\ plot.content = <<"full", "nometric">> /\ plot.opened = 2 /\ plot.saved = {}

\* The value drawn at place x of the line of a view-count directory when it is
\* computed from the data of group g alone.
OwnColumn(g, x) ==
  [i \in 1..plot.reps |->
     IF x = 1 THEN Zero ELSE Metric(plot.key, DataRow(plot.content[i], confusion_groups[g], x - 1))]

\* C15: plot_policy_sweep saves one figure per confusion source with one line per
\* view-count directory, and the values of the figure of a source are computed
\* from the data of that source: nothing written for another source changes them.
C15_SourcesKeptSeparate ==
  (plot.pc = "done" /\ plot.tool = "plot_experiment_result_confusion") =>
    /\ \A p \in 1..plot.policies : \A g \in 1..n_group :
         \E f \in plot.saved : f.policy = p /\ f.source = g
    /\ \A f \in plot.saved :
         /\ Len(f.lines) = Cardinality(plot.views)
         /\ \A j \in DOMAIN f.lines : \A x \in DOMAIN f.lines[j].ydata :
              f.lines[j].ydata[x] =
                IF plot.reps > 1 THEN Mean(OwnColumn(f.source, x)) ELSE OwnColumn(f.source, x)[1]

Candidates ==
  { k \in DOMAIN tool.bin.listing :
      /\ tool.bin.listing[k].file
      /\ Head(tool.bin.listing[k].name) = EXECUTABLE_NAME(tool.script) }

\* The module code of the script has run.
StartedUp == tool.pc # "start"

\* C21: once the module code of a driver script has run, either its executable
\* is the first entry of the bin directory, in iteration order, that is a
\* regular file whose name starts with the executable name (also when several
\* entries are such files, and no error is raised then), or the bin directory is
\* missing or holds no such file, and the script has ended with AssertionError,
\* no configuration processed, no directory made and no process launched.
C21_FirstMatchOrAssertion ==
  StartedUp =>
    IF tool.bin.exists /\ tool.bin.is_dir /\ Candidates # {}
    THEN /\ tool.error # "AssertionError"
         /\ \E k \in Candidates :
              /\ \A j \in Candidates : k <= j
              /\ tool.EXECUTABLE_PATH = BINARIES_PATH \o << tool.bin.listing[k].name >>
    ELSE /\ tool.pc = "failed" /\ tool.error = "AssertionError"
         /\ tool.EXECUTABLE_PATH = None
         /\ tool.launched = 0 /\ ~tool.made /\ tool.stdin = <<>>
         /\ pc = "idle" /\ n = 0 /\ N = 0 /\ engines = 0 /\ proc = NoProc /\ out = <<>>

\* A sweep has launched its engine from a bin directory where two files share
\* the prefix and the first entry is a file with the executable's name further
\* in its own.
C21_Witness ==
  /\ tool.script \in SweepScripts /\ engines = 1
  /\ Cardinality(Candidates) = 2
  /\ 1 \notin Candidates
  /\ \E k \in DOMAIN tool.bin.listing[1].name :
       tool.bin.listing[1].name[k] = EXECUTABLE_NAME(tool.script)

\* The flags of a line, in their order: the fields at the odd places.
FlagsOf(line) ==
  LET fs == Fields(line)
  IN  [k \in 1..((Len(fs) + 1) \div 2) |-> fs[2 * k - 1]]

\* The number of shapes of a ground-truth scene.
ShapeCount(name) ==
  CASE name = "bin" -> 5
    [] name = "bar" -> 6
    [] OTHER        -> 1

\* A line that adds one shape to the scene.
IsShapeLine(line) ==
  LET fs == Fields(line)
  IN  /\ Len(fs) >= 4
      /\ fs[1] = <<"--name">>
      /\ fs[3] = <<"--shape">>
      /\ fs[4] \in { <<"sphere">>, <<"box">> }

\* C22: for a valid ground-truth name (sphere, box, bin, bar) the text that
\* run_make_ground_truth hands to the tool is, line by line: the output path, the
\* grid dimensions (--nx --ny --nz --resolution), the rotation, the translation,
\* one line per shape (1 for sphere and box, 5 for bin, 6 for bar), one empty
\* line, and the two lines "y"; and every valid name gets its text written.
C22_GroundTruthLineOrder ==
  (tool.script = "run_make_ground_truth" /\ tool.pc \in {"done", "failed"}
   /\ tool.name \in {"sphere", "box", "bin", "bar"}) =>
    LET ls == Lines(tool.stdin)
        k  == ShapeCount(tool.name)
    IN  /\ tool.pc = "done" /\ tool.launched = 1
        /\ tool.stdin # <<>> /\ tool.stdin[Len(tool.stdin)] = STDIN_NEWLINE
        /\ Len(ls) = 7 + k
        /\ ParsePath(ls[1]) = ToolDir(tool.script) \o << <<tool.name>> >>
        /\ FlagsOf(ls[2]) = << <<"--nx">>, <<"--ny">>, <<"--nz">>, <<"--resolution">> >>
        /\ FlagsOf(ls[3]) = << <<"--rx">>, <<"--ry">>, <<"--rz">> >>
        /\ FlagsOf(ls[4]) = << <<"--x">>, <<"--y">>, <<"--z">> >>
        /\ \A j \in 5..(4 + k) : IsShapeLine(ls[j])
        /\ ls[5 + k] = <<>>
        /\ ls[6 + k] = <<"y">>
        /\ ls[7 + k] = <<"y">>

\* The bar scene, of six shapes, has been written to the tool.
C22_Witness ==
  /\ tool.script = "run_make_ground_truth" /\ tool.pc = "done" /\ tool.name = "bar"
  /\ Len(Lines(tool.stdin)) = 13

\* C23: given a name outside the accepted set, run_make_ground_truth and
\* run_precompute_views end with ValueError, and the error comes before the
\* output directory is made and before the tool is launched, with nothing
\* written to the tool.
C23_InvalidNameFailsBeforeSideEffects ==
  (tool.script \in ToolScripts /\ tool.pc \in {"done", "failed"}
   /\ tool.error # "AssertionError" /\ tool.name \notin TruthNames(tool.script)) =>
    /\ tool.pc = "failed" /\ tool.error = "ValueError"
    /\ ~tool.made
    /\ tool.launched = 0
    /\ tool.stdin = <<>>

(* ---------------------- claims on concurrent sweeps -------------------- *)

\* The output paths for which process p has invoked the engine.
Invoked(p) == { x.fpath : x \in sweeps[p].launched }

\* Both processes run with --no-override and were given different --start-at.
SkippingSideBySide ==
  /\ \A p \in Procs : sweeps[p].no_override
  /\ sweeps[1].start_at # sweeps[2].start_at

\* C24 as stated: with skip-if-exists enabled, sweeps that run side by side,
\* started with different start-at values, never invoke the engine for the same
\* output path.
C24_AtMostOneInvocationPerPath ==
  SkippingSideBySide => Invoked(1) \cap Invoked(2) = {}

\* C24 amended: with skip-if-exists enabled, a sweep process invokes the engine
\* only at indices from its own start-at value on and only for an output path
\* whose results file does not exist at the moment of its check; that check is
\* all that keeps processes apart.
C24_InvokesOnlyWhereAbsent ==
  [][ \A p \in Procs :
        (sweeps[p].no_override /\ sweeps'[p].launched # sweeps[p].launched) =>
          \A x \in sweeps'[p].launched \ sweeps[p].launched :
            /\ x.fpath \notin files
            /\ x.n >= sweeps[p].start_at
            /\ x.fpath = sweeps'[p].fpath ]_vars

\* Both processes, skipping existing results and started at different indices,
\* have invoked the engine for one output path, and both engines run.
C24_Witness ==
  /\ SkippingSideBySide
  /\ Invoked(1) \cap Invoked(2) # {}
  /\ \A p \in Procs : sweeps[p].running

(* ------------------- claims on the noise-bound table ------------------- *)

\* C29: in experiment_3 the index of every intrinsic profile lies within
\* DIST_AND_NOISE and the profile's --noise argument is the noise fraction of the
\* entry it indexes; and for the entry (d1, d2, noise) of the profile of a
\* configuration handed to the engine, the probability channel is encoded with
\* --d-min -d1 and --d-max d2 and the TSDF channel with --d-min -d1 and
\* --d-max d1.
C29_NoiseTableBounds ==
  script = "experiment_3" =>
    /\ \A k \in DOMAIN INTRINSICS :
         /\ INTRINSICS[k].idx \in 0..(Len(DIST_AND_NOISE) - 1)
         /\ ParseFloat(FlagValue(Fields(INTRINSICS[k].args), "--noise"))
              = DecNorm(DIST_AND_NOISE[INTRINSICS[k].idx + 1].noise)
    /\ proc # NoProc =>
         LET d == DIST_AND_NOISE[IntrAt(pos).idx + 1]
             ls == Lines(proc)
             probability == DecodeChannel(ls[7])
             tsdf == DecodeChannel(ls[8])
         IN  /\ ls[5] = IntrAt(pos).args
             /\ probability.name = <<"probability">>
             /\ probability.bounds = << DecNorm(DecNeg(d.d1)), DecNorm(d.d2) >>
             /\ tsdf.name = <<"TSDF">>
             /\ tsdf.bounds = << DecNorm(DecNeg(d.d1)), DecNorm(d.d1) >>

\* A configuration of the noisiest profile of experiment_3, whose entry is
\* (0.18, 0.10, 0.06), has been handed to the engine.
C29_Witness ==
  /\ script = "experiment_3" /\ proc # NoProc
  /\ IntrAt(pos).idx = 2
  /\ DecodeChannel(Lines(proc)[7]).bounds = << Dec(-18, 2), Dec(1, 1) >>
  /\ DecodeChannel(Lines(proc)[8]).bounds = << Dec(-18, 2), Dec(18, 2) >>

(* ------------------ claims on the plots of a results tree ------------------ *)

\* main of plot_experiment_result_confusion ran and its assertion passed.
PlotChecked ==
  plot.tool = "plot_experiment_result_confusion" /\ plot.key \in PLOT_OPTIONS

\* main went on after its call of select_experiment.
SelectReturned == PlotChecked /\ plot.listed >= 3

\* The sub-directories of the directory given with --dir, in the order listed.
SubDirectories == SelectSeq(plot.listing, LAMBDA x : x.dir)

\* C25: plot_policy_sweep takes the view-count directories of a policy in
\* increasing order of the integer their names stand for, so the lines of
\* every figure it saves come in that order; a directory whose name is no
\* integer makes it print a message and raise ValueError with no result file
\* opened.
C25_IncreasingViewOrder ==
  PlotChecked =>
    /\ \A f \in plot.saved : \A j, k \in DOMAIN f.lines :
          j < k => f.lines[j].label[1] < f.lines[k].label[1]
    /\ (SelectReturned /\ plot.extra # {} /\ plot.pc # "main") =>
          /\ plot.pc = "failed" /\ plot.error = "ValueError"
          /\ \E i \in DOMAIN plot.printed : plot.printed[i] = SortMessage
          /\ plot.opened = 0 /\ plot.saved = {}

\* C26: plot_confusion with --plot-raw and without --display-only leaves, for
\* every result file it has processed, the figure of the raw confusion values
\* and the figure of accuracy and precision saved next to that file, each
\* under a path of its own.
C26_BothFiguresSaved ==
  (plot.tool = "plot_confusion" /\ plot.plot_raw /\ ~plot.display_only) =>
    \A t \in 1..(plot.todo - 1) :
      \E f, g \in plot.saved :
        /\ f.policy = t /\ f.title = "Raw Confusion Values"
        /\ g.policy = t /\ g.title = "Reconstruction Accuracy and Precision"
        /\ f.dir = g.dir /\ f.name # g.name

\* C27: every line of a figure saved by plot_policy_sweep for a directory of V
\* views has its V + 1 points at the steps 0..V, with 0 at step 0 and at step
\* k the metric of the k-th data row of the result file (the mean over the
\* repetitions where there are several); and plot_policy_sweep does not end
\* in success on a result file whose data has not exactly V rows.
C27_SeriesShapeAndExactRows ==
  PlotChecked =>
    /\ \A f \in plot.saved : \A j \in DOMAIN f.lines :
          LET line == f.lines[j]
              V == line.label[1]
          IN  /\ line.xdata = [x \in 1..(V + 1) |-> x - 1]
              /\ DOMAIN line.ydata = 1..(V + 1)
              /\ line.ydata[1] = Zero
              /\ (\A i \in DOMAIN plot.content : Rows(plot.content[i], V) = V) =>
                    \E g \in 1..n_group : \A k \in 1..V :
                      line.ydata[k + 1] =
                        IF plot.reps > 1
                        THEN Mean([i \in DOMAIN plot.content |->
                                     Metric(plot.key, DataRow(plot.content[i],
                                                              confusion_groups[g], k))])
                        ELSE Metric(plot.key, DataRow(plot.content[1],
                                                      confusion_groups[g], k))
    /\ plot.saved # {} =>
          \A v \in plot.views : \A i \in DOMAIN plot.content : Rows(plot.content[i], v) = v

\* C28: when select_experiment returns, it returns one of the sub-directories
\* of the directory given: the only one without a prompt, or of several the
\* one at the index entered, counted from the end for a negative index; with
\* no sub-directory it prints that no experiment directories are available
\* and the call ends in an error with nothing returned.
C28_SelectsASubDirectory ==
  LET k == Len(SubDirectories)
      idx == SignedInt(plot.entered)
  IN  /\ SelectReturned =>
            /\ \E i \in 1..k : plot.selected = SubDirectories[i].name
            /\ k = 1 => ~plot.prompted /\ plot.selected = SubDirectories[1].name
            /\ k > 1 => /\ plot.prompted /\ IsSignedInt(plot.entered)
                         /\ idx < k /\ idx >= 0 - k
                         /\ plot.selected = SubDirectories[((idx + k) % k) + 1].name
      /\ (PlotChecked /\ k = 0) =>
            /\ plot.pc = "failed" /\ plot.error \in {"IndexError", "ValueError"}
            /\ plot.selected = None /\ plot.listed = 1
            /\ plot.printed # <<>> /\ plot.printed[1] = NoExperimentsLine

\* Of two sub-directories the last one was chosen with -1, and main has
\* plotted it.
C28_Witness ==
  /\ SelectReturned /\ plot.pc = "done"
  /\ Len(plot.listing) = 2 /\ Len(SubDirectories) = 2
  /\ plot.prompted /\ plot.entered = <<"-", "1">>
  /\ plot.selected = SubDirectories[2].name

====
